---------------------------- MODULE Spec2Model ----------------------------
(***************************************************************************)
(* A model of the Green Button Atom+XML to CSV converter:                  *)
(*   GreenButtonParser (parseXML, parseEntry, the per-resource parsers,    *)
(*   buildRelationships, toFlatData) of src/unnamed/part_000, and          *)
(*   CSVExporter (convertToCSV, validateData, exportGreenButtonData) of    *)
(*   src/csvExporter.js.                                                   *)
(*                                                                         *)
(* JavaScript values are tagged records (field t): null, NaN, integers,    *)
(* decimal numbers m * 10^e, strings.  XML text is a TLA+ string read      *)
(* character by character (SubSeq), so parseInt, trim, includes, toFixed   *)
(* and toISOString are computed, not assumed.  Numbers are exact: the      *)
(* inputs stay below 2^31 and away from rounding ties of toFixed, where    *)
(* binary floating point and decimal arithmetic agree.                     *)
(***************************************************************************)
EXTENDS Integers, Sequences, FiniteSets, TLC

VARIABLES
    xml,         \* xml[c]: the document DOMParser builds from the text given to call c
    pc,          \* pc[c]: where call c of parseXML (and its caller) stands
    idx,         \* idx[c]: number of entries call c has passed to parseEntry
    parsedData,  \* parsedData[c]: the local parsedData of call c
    result,      \* result[c]: what the caller of call c got (document or error)
    flatData,    \* flatData[c]: toFlatData of the returned document
    exportCall,  \* exportCall[c]: options and environment of the export of call c
    exported,    \* exported[c]: what exportGreenButtonData gave for call c
    tableInput,  \* the data and headers handed to the CSVExporter directly
    encoded,     \* what convertToCSV and validateData gave for that input
    summary,     \* summary[c]: generateSummaryStats of the rows of call c
    app          \* the GreenButtonApp: its fields, the page, its pending callbacks

vars == <<xml, pc, idx, parsedData, result, flatData, exportCall, exported,
          tableInput, encoded, summary, app>>

\* the state of the CSVExporter and of the application
exporterVars == <<exportCall, exported, tableInput, encoded, summary, app>>

\* the state of the parser and of its caller
parserVars == <<xml, pc, idx, parsedData, result, flatData>>

-----------------------------------------------------------------------------
(* Bounds of the model *)

\* parseXML invocations the model holds (only call 1 runs under Spec)
NumCalls == 2
\* longest feed of the structural family, in entries
MaxEntries == 3
\* powerOfTenMultiplier texts range over -MaxPow..MaxPow
MaxPow == 2

Calls == 1..NumCalls

-----------------------------------------------------------------------------
(* JavaScript values *)

Null == [t |-> "null"]
NaN == [t |-> "nan"]
IntV(n) == [t |-> "int", v |-> n]
Str(s) == [t |-> "str", s |-> s]
\* the number m * 10^e with e < 0 (a non-integer result of Math.pow(10, e))
Dec(m, e) == [t |-> "dec", m |-> m, e |-> e]

\* an integer of 14 digits or more: it is beyond the arithmetic of the model
\* and, as a number of seconds, beyond the range of Date (8.64e12 seconds)
Huge == [t |-> "huge"]

IsInt(x) == x.t = "int"

\* ToBoolean: null, NaN, 0 and "" are falsy
Truthy(x) ==
    CASE x.t = "null" -> FALSE
      [] x.t = "nan" -> FALSE
      [] x.t = "int" -> x.v # 0
      [] x.t = "dec" -> x.m # 0
      [] x.t = "str" -> x.s # ""
      [] OTHER -> TRUE

\* a || b
OrElse(a, b) == IF Truthy(a) THEN a ELSE b

-----------------------------------------------------------------------------
(* Strings *)

CharAt(s, i) == SubSeq(s, i, i)

Digits == {"0", "1", "2", "3", "4", "5", "6", "7", "8", "9"}

DigitVal(ch) ==
    CASE ch = "0" -> 0 [] ch = "1" -> 1 [] ch = "2" -> 2 [] ch = "3" -> 3
      [] ch = "4" -> 4 [] ch = "5" -> 5 [] ch = "6" -> 6 [] ch = "7" -> 7
      [] ch = "8" -> 8 [] ch = "9" -> 9

DigitChar(d) ==
    CASE d = 0 -> "0" [] d = 1 -> "1" [] d = 2 -> "2" [] d = 3 -> "3"
      [] d = 4 -> "4" [] d = 5 -> "5" [] d = 6 -> "6" [] d = 7 -> "7"
      [] d = 8 -> "8" [] d = 9 -> "9"

WhiteSpace == {" ", "\t", "\n", "\r"}

\* first position of s at or after i that holds no white space (Len(s)+1 if none)
RECURSIVE SkipSpace(_, _)
SkipSpace(s, i) ==
    IF i <= Len(s) /\ CharAt(s, i) \in WhiteSpace THEN SkipSpace(s, i + 1) ELSE i

\* last position of s at or before i that holds no white space (0 if none)
RECURSIVE SkipSpaceBack(_, _)
SkipSpaceBack(s, i) ==
    IF i >= 1 /\ CharAt(s, i) \in WhiteSpace THEN SkipSpaceBack(s, i - 1) ELSE i

\* String.prototype.trim
Trim(s) == SubSeq(s, SkipSpace(s, 1), SkipSpaceBack(s, Len(s)))

\* String.prototype.includes
Includes(s, sub) ==
    \E i \in 1..(Len(s) - Len(sub) + 1) : SubSeq(s, i, i + Len(sub) - 1) = sub

\* decimal digits of a natural number
RECURSIVE NatToStr(_)
NatToStr(n) ==
    IF n < 10 THEN DigitChar(n) ELSE NatToStr(n \div 10) \o DigitChar(n % 10)

\* n in at least w digits, zero padded
RECURSIVE Pad(_, _)
Pad(n, w) == IF Len(NatToStr(n)) >= w THEN NatToStr(n) ELSE
             SubSeq("000000", 1, w - Len(NatToStr(n))) \o NatToStr(n)

RECURSIVE Pow10(_)
Pow10(k) == IF k = 0 THEN 1 ELSE 10 * Pow10(k - 1)

\* end of the run of digits of s that starts at i (i - 1 if s has no digit at i)
RECURSIVE DigitsEnd(_, _)
DigitsEnd(s, i) ==
    IF i <= Len(s) /\ CharAt(s, i) \in Digits THEN DigitsEnd(s, i + 1) ELSE i - 1

\* value of the digits s[i..j]
RECURSIVE DigitsValue(_, _, _)
DigitsValue(s, i, j) ==
    IF j < i THEN 0 ELSE 10 * DigitsValue(s, i, j - 1) + DigitVal(CharAt(s, j))

\* first position of s at or after i, and before j, that holds no 0
RECURSIVE SkipZeros(_, _, _)
SkipZeros(s, i, j) == IF i < j /\ CharAt(s, i) = "0" THEN SkipZeros(s, i + 1, j) ELSE i

\* parseInt(x) of a string or null: leading white space, an optional sign, then
\* the longest run of decimal digits; NaN when there is no digit (the hex
\* prefix 0x is outside the alphabet of the inputs)
ParseInt(x) ==
    IF x.t # "str" THEN NaN
    ELSE LET s == x.s
             a == SkipSpace(s, 1)
             signed == a <= Len(s) /\ CharAt(s, a) \in {"-", "+"}
             b == IF signed THEN a + 1 ELSE a
             e == DigitsEnd(s, b)
         IN  IF e < b THEN NaN
             ELSE IF e - SkipZeros(s, b, e) + 1 >= 14 THEN Huge
             ELSE IF signed /\ CharAt(s, a) = "-"
                  THEN IntV(0 - DigitsValue(s, b, e))
                  ELSE IntV(DigitsValue(s, b, e))


-----------------------------------------------------------------------------
(* Numbers *)

\* m * 10^e in normal form: an integer when it is one, else Dec with no trailing zero
RECURSIVE Scaled(_, _)
Scaled(m, e) ==
    IF e >= 0 THEN IntV(m * Pow10(e))
    ELSE IF m % 10 = 0 THEN Scaled(m \div 10, e + 1)
    ELSE Dec(m, e)

\* a * Math.pow(10, p) for an integer a; NaN when p is NaN
TimesPow10(a, p) == IF IsInt(p) THEN Scaled(a.v, p.v) ELSE NaN

Abs(n) == IF n < 0 THEN 0 - n ELSE n

\* n / d rounded to the nearest integer, halves up (n >= 0, d > 0)
RoundDiv(n, d) == IF 2 * (n % d) >= d THEN (n \div d) + 1 ELSE n \div d

\* hundredths of x / 100, rounded: the integer n that toFixed(2) prints as n / 100
Hundredths(x) ==
    IF x.t = "int" THEN Abs(x.v) ELSE RoundDiv(Abs(x.m), Pow10(0 - x.e))

IsNegative(x) == IF x.t = "int" THEN x.v < 0 ELSE x.m < 0

\* (x / 100).toFixed(2) for a number x that is not NaN
DivBy100ToFixed2(x) ==
    Str((IF IsNegative(x) THEN "-" ELSE "")
        \o NatToStr(Hundredths(x) \div 100) \o "." \o Pad(Hundredths(x) % 100, 2))

\* civil date of a day number counted from 1970-01-01
CivilFromDays(days) ==
    LET z == days + 719468
        era == z \div 146097
        doe == z - era * 146097
        yoe == (doe - (doe \div 1460) + (doe \div 36524) - (doe \div 146096)) \div 365
        doy == doe - (365 * yoe + (yoe \div 4) - (yoe \div 100))
        mp == (5 * doy + 2) \div 153
        d == doy - ((153 * mp + 2) \div 5) + 1
        m == IF mp < 10 THEN mp + 3 ELSE mp - 9
        y == yoe + era * 400 + (IF m <= 2 THEN 1 ELSE 0)
    IN  [y |-> y, m |-> m, d |-> d]

\* new Date(seconds * 1000).toISOString(), years 0000..9999
ToISOString(seconds) ==
    LET date == CivilFromDays(seconds \div 86400)
        sod == seconds % 86400
    IN  Pad(date.y, 4) \o "-" \o Pad(date.m, 2) \o "-" \o Pad(date.d, 2) \o "T"
        \o Pad(sod \div 3600, 2) \o ":" \o Pad((sod % 3600) \div 60, 2) \o ":"
        \o Pad(sod % 60, 2) \o ".000Z"

\* formatTimestamp
FormatTimestamp(timestamp) ==
    IF ~Truthy(timestamp) THEN Null ELSE Str(ToISOString(timestamp.v))

-----------------------------------------------------------------------------
(* Lookup tables of the constructor *)

COMMODITY_TYPES ==
    (0 :> "Unknown") @@ (1 :> "Electricity") @@ (2 :> "Gas") @@ (3 :> "Water")
    @@ (4 :> "Time") @@ (5 :> "Heat") @@ (6 :> "Cooling") @@ (7 :> "Carbon")
    @@ (8 :> "Carbon dioxide") @@ (9 :> "Nitrogen") @@ (10 :> "Hydrogen")
    @@ (11 :> "Compressed air")

UOM_TYPES ==
    (5 :> "A") @@ (29 :> "V") @@ (31 :> "J") @@ (38 :> "W") @@ (42 :> "m3")
    @@ (72 :> "Wh") @@ (73 :> "kWh") @@ (106 :> "Ah") @@ (119 :> "ft3")
    @@ (122 :> "gal") @@ (132 :> "VAh") @@ (140 :> "W") @@ (159 :> "Wh")
    @@ (169 :> "VAR") @@ (174 :> "VAh")

SERVICE_CATEGORIES ==
    (0 :> "Electricity") @@ (1 :> "Gas") @@ (2 :> "Water") @@ (3 :> "Time")
    @@ (4 :> "Heat") @@ (5 :> "Cooling")

\* table[code] || 'Unknown'
Describe(table, code) ==
    IF IsInt(code) /\ code.v \in DOMAIN table THEN Str(table[code.v]) ELSE Str("Unknown")

-----------------------------------------------------------------------------
(* The DOM: an element is a record of its children; a child that is absent   *)
(* is Null, a text child is Str(raw text), an element child is a record      *)

\* parent.querySelector(tagName): the child element, or null
QuerySelector(parent, tagName) ==
    IF tagName \in DOMAIN parent THEN parent[tagName] ELSE Null

\* getTextContent: the trimmed text of the child, or null
GetTextContent(parent, tagName) ==
    IF QuerySelector(parent, tagName) = Null THEN Null
    ELSE Str(Trim(QuerySelector(parent, tagName).s))

\* parseInt(getTextContent(element, tagName)) || null
IntOrNull(element, tagName) == OrElse(ParseInt(GetTextContent(element, tagName)), Null)

\* text ? parseInt(text) : otherwise
IntIfText(text, otherwise) == IF Truthy(text) THEN ParseInt(text) ELSE otherwise

\* text ? {code: parseInt(text), description: table[parseInt(text)] || 'Unknown'} : null
Coded(text, table) ==
    IF Truthy(text)
    THEN [t |-> "obj", code |-> ParseInt(text), description |-> Describe(table, ParseInt(text))]
    ELSE Null

\* {duration: parseInt(..) || null, start: parseInt(..) || null} of a period element, or null
Period(element) ==
    IF element = Null THEN Null
    ELSE [t |-> "obj", duration |-> IntOrNull(element, "duration"),
          start |-> IntOrNull(element, "start")]

-----------------------------------------------------------------------------
(* A JavaScript Map: its keys in insertion order and its values *)

EmptyMap == [keys |-> <<>>, val |-> <<>>]

MapHas(m, k) == k \in DOMAIN m.val

\* Map.prototype.set: a new key goes last, an old key keeps its place
MapSet(m, k, v) ==
    [keys |-> IF MapHas(m, k) THEN m.keys ELSE Append(m.keys, k),
     val |-> (k :> v) @@ m.val]

\* map.get(k) || []
GetOrEmpty(m, k) == IF MapHas(m, k) THEN m.val[k] ELSE <<>>

RECURSIVE Concat(_)
Concat(ss) == IF Len(ss) = 0 THEN <<>> ELSE Head(ss) \o Concat(Tail(ss))

RECURSIVE FoldLeft(_, _, _)
FoldLeft(Op(_, _), acc, seq) ==
    IF Len(seq) = 0 THEN acc ELSE FoldLeft(Op, Op(acc, Head(seq)), Tail(seq))

-----------------------------------------------------------------------------
(* GreenButtonParser: the resource parsers *)

\* one step of the loop of extractLinks: a link with rel and href joins links[rel]
AddLink(links, link) ==
    IF Truthy(link.rel) /\ Truthy(link.href)
    THEN (link.rel.s :> ((IF link.rel.s \in DOMAIN links THEN links[link.rel.s] ELSE <<>>)
                          \o <<link.href.s>>)) @@ links
    ELSE links

\* extractLinks(entry): {rel: [href, ...]}
ExtractLinks(entry) == FoldLeft(AddLink, <<>>, entry.link)

\* names that every object literal inherits: links[rel] is then a truthy value
\* that is no array, so that links[rel].push(href) throws a TypeError
InheritedProperties ==
    {"constructor", "toString", "toLocaleString", "valueOf", "hasOwnProperty",
     "isPrototypeOf", "propertyIsEnumerable", "__proto__"}

\* extractLinks(entry) throws
ExtractLinksThrows(entry) ==
    \E i \in 1..Len(entry.link) :
        /\ Truthy(entry.link[i].rel) /\ Truthy(entry.link[i].href)
        /\ entry.link[i].rel.s \in InheritedProperties

PushIsNotAFunction == "links[rel].push is not a function"

ParseUsagePoint(element, entryId, links) ==
    LET serviceCategory == QuerySelector(element, "ServiceCategory")
        serviceCategoryKind == IF serviceCategory # Null
                               THEN GetTextContent(serviceCategory, "kind") ELSE Null
    IN  [id |-> entryId,
         serviceCategory |->
            IF Truthy(serviceCategoryKind)
            THEN [t |-> "obj", kind |-> ParseInt(serviceCategoryKind),
                  description |-> Describe(SERVICE_CATEGORIES, ParseInt(serviceCategoryKind))]
            ELSE Null,
         links |-> links,
         description |-> OrElse(GetTextContent(element, "description"), Null)]

ParseMeterReading(element, entryId, links) == [id |-> entryId, links |-> links]

ParseReadingType(element, entryId) ==
    [id |-> entryId,
     accumulationBehaviour |-> IntOrNull(element, "accumulationBehaviour"),
     commodity |-> Coded(GetTextContent(element, "commodity"), COMMODITY_TYPES),
     currency |-> IntOrNull(element, "currency"),
     dataQualifier |-> IntOrNull(element, "dataQualifier"),
     flowDirection |-> IntOrNull(element, "flowDirection"),
     intervalLength |-> IntOrNull(element, "intervalLength"),
     kind |-> IntOrNull(element, "kind"),
     phase |-> IntOrNull(element, "phase"),
     powerOfTenMultiplier |->
        IntIfText(GetTextContent(element, "powerOfTenMultiplier"), IntV(0)),
     timeAttribute |-> IntOrNull(element, "timeAttribute"),
     uom |-> Coded(GetTextContent(element, "uom"), UOM_TYPES)]

\* one IntervalReading element of parseIntervalBlock
ParseIntervalReading(reading) ==
    [cost |-> IntIfText(GetTextContent(reading, "cost"), Null),
     timePeriod |-> Period(QuerySelector(reading, "timePeriod")),
     value |-> IntIfText(GetTextContent(reading, "value"), Null),
     qualityFlags |-> OrElse(GetTextContent(reading, "qualityFlags"), Null)]

ParseIntervalBlock(element, entryId, links) ==
    [id |-> entryId,
     interval |-> Period(QuerySelector(element, "interval")),
     intervalReadings |->
        [k \in 1..Len(element.IntervalReading) |->
            ParseIntervalReading(element.IntervalReading[k])],
     links |-> links]

ParseLocalTimeParameters(element, entryId) ==
    [id |-> entryId,
     dstEndRule |-> OrElse(GetTextContent(element, "dstEndRule"), Null),
     dstOffset |-> IntOrNull(element, "dstOffset"),
     dstStartRule |-> OrElse(GetTextContent(element, "dstStartRule"), Null),
     tzOffset |-> IntOrNull(element, "tzOffset")]

ParseUsageSummary(element, entryId) ==
    LET overallConsumption == QuerySelector(element, "overallConsumptionLastPeriod")
    IN  [id |-> entryId,
         billingPeriod |-> Period(QuerySelector(element, "billingPeriod")),
         billLastPeriod |-> IntOrNull(element, "billLastPeriod"),
         billToDate |-> IntOrNull(element, "billToDate"),
         overallConsumptionLastPeriod |->
            IF overallConsumption # Null
            THEN [t |-> "obj",
                  powerOfTenMultiplier |->
                     OrElse(ParseInt(GetTextContent(overallConsumption, "powerOfTenMultiplier")),
                            IntV(0)),
                  uom |-> IntOrNull(overallConsumption, "uom"),
                  value |-> IntOrNull(overallConsumption, "value")]
            ELSE Null,
         currency |-> IntOrNull(element, "currency")]

\* a variant that files the entry under every resource type its content holds
ParseEntryEveryType(entry, pd) ==
    LET entryId == GetTextContent(entry, "id")
        content == QuerySelector(entry, "content")
        links == ExtractLinks(entry)
        Filed(m, tagName, entity) ==
            IF QuerySelector(content, tagName) # Null THEN MapSet(m, entryId, entity) ELSE m
    IN  IF content = Null THEN pd
        ELSE [pd EXCEPT
                !.usagePoints = Filed(@, "UsagePoint",
                    ParseUsagePoint(QuerySelector(content, "UsagePoint"), entryId, links)),
                !.meterReadings = Filed(@, "MeterReading",
                    ParseMeterReading(QuerySelector(content, "MeterReading"), entryId, links)),
                !.intervalBlocks = Filed(@, "IntervalBlock",
                    ParseIntervalBlock(QuerySelector(content, "IntervalBlock"), entryId, links)),
                !.readingTypes = Filed(@, "ReadingType",
                    ParseReadingType(QuerySelector(content, "ReadingType"), entryId)),
                !.localTimeParameters = Filed(@, "LocalTimeParameters",
                    ParseLocalTimeParameters(QuerySelector(content, "LocalTimeParameters"),
                                             entryId))]

\* parseEntry(entry, parsedData): parsedData after the entry
ParseEntry(entry, pd) ==
    LET entryId == GetTextContent(entry, "id")
        content == QuerySelector(entry, "content")
        links == ExtractLinks(entry)
        usagePoint == QuerySelector(content, "UsagePoint")
        meterReading == QuerySelector(content, "MeterReading")
        intervalBlock == QuerySelector(content, "IntervalBlock")
        readingType == QuerySelector(content, "ReadingType")
        localTimeParams == QuerySelector(content, "LocalTimeParameters")
        usageSummary == IF QuerySelector(content, "UsageSummary") # Null
                        THEN QuerySelector(content, "UsageSummary")
                        ELSE QuerySelector(content, "ElectricPowerUsageSummary")
    IN  IF content = Null THEN pd
        ELSE IF usagePoint # Null THEN
            [pd EXCEPT !.usagePoints =
                MapSet(@, entryId, ParseUsagePoint(usagePoint, entryId, links))]
        ELSE IF meterReading # Null THEN
            [pd EXCEPT !.meterReadings =
                MapSet(@, entryId, ParseMeterReading(meterReading, entryId, links))]
        ELSE IF intervalBlock # Null THEN
            [pd EXCEPT !.intervalBlocks =
                MapSet(@, entryId, ParseIntervalBlock(intervalBlock, entryId, links))]
        ELSE IF readingType # Null THEN
            [pd EXCEPT !.readingTypes =
                MapSet(@, entryId, ParseReadingType(readingType, entryId))]
        ELSE IF localTimeParams # Null THEN
            [pd EXCEPT !.localTimeParameters =
                MapSet(@, entryId, ParseLocalTimeParameters(localTimeParams, entryId))]
        ELSE IF usageSummary # Null THEN
            [pd EXCEPT !.usageSummaries =
                MapSet(@, entryId, ParseUsageSummary(usageSummary, entryId))]
        ELSE pd

\* await parseEntry(entry, parsedData): parsedData after the entry, or the
\* error thrown (entries without content return before extractLinks)
EntryOutcome(entry, pd) ==
    IF QuerySelector(entry, "content") # Null /\ ExtractLinksThrows(entry)
    THEN [t |-> "throw", message |-> PushIsNotAFunction]
    ELSE [t |-> "ok", pd |-> ParseEntry(entry, pd)]

-----------------------------------------------------------------------------
(* buildRelationships *)

\* (entity.links.related || []).filter(link => link.includes(substring))
MatchingLinks(entity, substring) ==
    SelectSeq(IF "related" \in DOMAIN entity.links THEN entity.links["related"] ELSE <<>>,
              LAMBDA link : Includes(link, substring))

\* a variant that resolves the link to one meter reading only
UsagePointToFirstMeterReading(pd) ==
    LET PerUsagePoint(rel, upId) ==
            IF Len(MatchingLinks(pd.usagePoints.val[upId], "MeterReading")) > 0
            THEN MapSet(rel, upId, IF Len(pd.meterReadings.keys) = 0 THEN <<>>
                                   ELSE <<pd.meterReadings.keys[1]>>)
            ELSE rel
    IN  FoldLeft(PerUsagePoint, EmptyMap, pd.usagePoints.keys)

\* first loop: a usage point with a MeterReading link gets a list, then every
\* key of meterReadings is pushed onto it
UsagePointToMeterReadings(pd) ==
    LET PerUsagePoint(rel, upId) ==
            IF Len(MatchingLinks(pd.usagePoints.val[upId], "MeterReading")) > 0
            THEN FoldLeft(LAMBDA r, mrId : MapSet(r, upId, Append(r.val[upId], mrId)),
                          MapSet(rel, upId, <<>>), pd.meterReadings.keys)
            ELSE rel
    IN  FoldLeft(PerUsagePoint, EmptyMap, pd.usagePoints.keys)

\* a variant that creates the list before it looks at the links
MeterReadingToIntervalBlocksEager(pd) ==
    LET PerMeterReading(rel, mrId) ==
            IF Len(MatchingLinks(pd.meterReadings.val[mrId], "IntervalBlock")) > 0
            THEN FoldLeft(LAMBDA r, ibId : MapSet(r, mrId, Append(r.val[mrId], ibId)),
                          MapSet(rel, mrId, <<>>), pd.intervalBlocks.keys)
            ELSE MapSet(rel, mrId, <<>>)
    IN  FoldLeft(PerMeterReading, EmptyMap, pd.meterReadings.keys)

\* second loop: the same from meter readings to interval blocks
MeterReadingToIntervalBlocks(pd) ==
    LET PerMeterReading(rel, mrId) ==
            IF Len(MatchingLinks(pd.meterReadings.val[mrId], "IntervalBlock")) > 0
            THEN FoldLeft(LAMBDA r, ibId : MapSet(r, mrId, Append(r.val[mrId], ibId)),
                          MapSet(rel, mrId, <<>>), pd.intervalBlocks.keys)
            ELSE rel
    IN  FoldLeft(PerMeterReading, EmptyMap, pd.meterReadings.keys)

\* third loop: the list is created inside the loop over readingTypes, on its
\* first push
MeterReadingToReadingTypes(pd) ==
    LET PerMeterReading(rel, mrId) ==
            IF Len(MatchingLinks(pd.meterReadings.val[mrId], "ReadingType")) > 0
            THEN FoldLeft(LAMBDA r, rtId :
                              MapSet(IF ~MapHas(r, mrId) THEN MapSet(r, mrId, <<>>) ELSE r,
                                     mrId, Append(GetOrEmpty(r, mrId), rtId)),
                          rel, pd.readingTypes.keys)
            ELSE rel
    IN  FoldLeft(PerMeterReading, EmptyMap, pd.meterReadings.keys)

BuildRelationships(pd) ==
    [pd EXCEPT !.relationships =
        [usagePointToMeterReadings |-> UsagePointToMeterReadings(pd),
         meterReadingToIntervalBlocks |-> MeterReadingToIntervalBlocks(pd),
         meterReadingToReadingTypes |-> MeterReadingToReadingTypes(pd)]]

-----------------------------------------------------------------------------
(* toFlatData *)

\* a variant that takes the last related reading type
LastReadingType(pd, relatedReadingTypes) ==
    IF Len(relatedReadingTypes) > 0
       /\ MapHas(pd.readingTypes, relatedReadingTypes[Len(relatedReadingTypes)])
    THEN pd.readingTypes.val[relatedReadingTypes[Len(relatedReadingTypes)]]
    ELSE Null

\* relatedReadingTypes.length > 0 ? readingTypes.get(relatedReadingTypes[0]) : null
FirstReadingType(pd, relatedReadingTypes) ==
    IF Len(relatedReadingTypes) > 0 /\ MapHas(pd.readingTypes, relatedReadingTypes[1])
    THEN pd.readingTypes.val[relatedReadingTypes[1]]
    ELSE Null

\* relatedReadingTypes[0] || null
FirstReadingTypeId(relatedReadingTypes) ==
    IF Len(relatedReadingTypes) > 0 THEN OrElse(relatedReadingTypes[1], Null) ELSE Null

\* readingType ? readingType.powerOfTenMultiplier : 0
PowerMultiplier(readingType) ==
    IF readingType # Null THEN readingType.powerOfTenMultiplier ELSE IntV(0)

\* reading.value ? reading.value * Math.pow(10, powerMultiplier) : null
CalculatedValue(reading, powerMultiplier) ==
    IF Truthy(reading.value) THEN TimesPow10(reading.value, powerMultiplier) ELSE Null

\* reading.cost ? reading.cost * Math.pow(10, powerMultiplier) : null
CalculatedCostWithMultiplier(reading, powerMultiplier) ==
    IF Truthy(reading.cost) THEN TimesPow10(reading.cost, powerMultiplier) ELSE Null

\* calculatedCostWithMultiplier ? (calculatedCostWithMultiplier / 100).toFixed(2) : null
CalculatedCost(reading, powerMultiplier) ==
    IF Truthy(CalculatedCostWithMultiplier(reading, powerMultiplier))
    THEN DivBy100ToFixed2(CalculatedCostWithMultiplier(reading, powerMultiplier))
    ELSE Null

\* timePeriod && start && duration ? formatTimestamp(start + duration) : null
EndTime(reading) ==
    IF reading.timePeriod # Null /\ Truthy(reading.timePeriod.start)
       /\ Truthy(reading.timePeriod.duration)
    THEN FormatTimestamp(IntV(reading.timePeriod.start.v + reading.timePeriod.duration.v))
    ELSE Null

\* the object pushed onto flatData for one interval reading
FlatRow(upId, usagePoint, mrId, ibId, relatedReadingTypes, readingType, reading) ==
    [usage_point_id |-> upId,
     meter_reading_id |-> mrId,
     interval_block_id |-> ibId,
     reading_type_id |-> FirstReadingTypeId(relatedReadingTypes),
     service_category |-> IF usagePoint.serviceCategory # Null
                          THEN usagePoint.serviceCategory.description ELSE Null,
     commodity |-> IF readingType # Null /\ readingType.commodity # Null
                   THEN readingType.commodity.description ELSE Null,
     uom |-> IF readingType # Null /\ readingType.uom # Null
             THEN readingType.uom.description ELSE Null,
     power_multiplier |-> IF readingType # Null
                          THEN readingType.powerOfTenMultiplier ELSE Null,
     start_time |-> FormatTimestamp(IF reading.timePeriod # Null
                                    THEN reading.timePeriod.start ELSE Null),
     duration |-> IF reading.timePeriod # Null THEN reading.timePeriod.duration ELSE Null,
     end_time |-> EndTime(reading),
     value |-> reading.value,
     cost |-> reading.cost,
     quality_flags |-> reading.qualityFlags,
     interval_length |-> IF readingType # Null THEN readingType.intervalLength ELSE Null,
     calculated_value |-> CalculatedValue(reading, PowerMultiplier(readingType)),
     calculated_cost |-> CalculatedCost(reading, PowerMultiplier(readingType))]

\* the rows of one interval block id of a meter reading (none if the id is unknown)
RowsOfIntervalBlock(pd, upId, mrId, ibId) ==
    LET relatedReadingTypes == GetOrEmpty(pd.relationships.meterReadingToReadingTypes, mrId)
        readingType == FirstReadingType(pd, relatedReadingTypes)
    IN  IF ~MapHas(pd.intervalBlocks, ibId) THEN <<>>
        ELSE [k \in 1..Len(pd.intervalBlocks.val[ibId].intervalReadings) |->
                FlatRow(upId, pd.usagePoints.val[upId], mrId, ibId, relatedReadingTypes,
                        readingType, pd.intervalBlocks.val[ibId].intervalReadings[k])]

\* a variant that walks the related interval blocks from the last to the first
RowsOfMeterReadingReversed(pd, upId, mrId) ==
    LET relatedIntervalBlocks ==
            GetOrEmpty(pd.relationships.meterReadingToIntervalBlocks, mrId)
    IN  IF ~MapHas(pd.meterReadings, mrId) THEN <<>>
        ELSE Concat([j \in 1..Len(relatedIntervalBlocks) |->
                        RowsOfIntervalBlock(pd, upId, mrId,
                            relatedIntervalBlocks[Len(relatedIntervalBlocks) + 1 - j])])

\* the rows of one meter reading id of a usage point (none if the id is unknown)
RowsOfMeterReading(pd, upId, mrId) ==
    LET relatedIntervalBlocks ==
            GetOrEmpty(pd.relationships.meterReadingToIntervalBlocks, mrId)
    IN  IF ~MapHas(pd.meterReadings, mrId) THEN <<>>
        ELSE Concat([j \in 1..Len(relatedIntervalBlocks) |->
                        RowsOfIntervalBlock(pd, upId, mrId, relatedIntervalBlocks[j])])

\* a variant that pads a usage point without related meter readings with a
\* row of nulls
RowsOfUsagePointPadded(pd, upId) ==
    LET relatedMeterReadings ==
            GetOrEmpty(pd.relationships.usagePointToMeterReadings, upId)
    IN  IF Len(relatedMeterReadings) = 0
        THEN <<FlatRow(upId, pd.usagePoints.val[upId], Null, Null, <<>>, Null,
                       [cost |-> Null, timePeriod |-> Null, value |-> Null,
                        qualityFlags |-> Null])>>
        ELSE Concat([i \in 1..Len(relatedMeterReadings) |->
                        RowsOfMeterReading(pd, upId, relatedMeterReadings[i])])

\* the rows of one usage point
RowsOfUsagePoint(pd, upId) ==
    LET relatedMeterReadings ==
            GetOrEmpty(pd.relationships.usagePointToMeterReadings, upId)
    IN  Concat([i \in 1..Len(relatedMeterReadings) |->
                    RowsOfMeterReading(pd, upId, relatedMeterReadings[i])])

ToFlatData(pd) ==
    Concat([u \in 1..Len(pd.usagePoints.keys) |->
                RowsOfUsagePoint(pd, pd.usagePoints.keys[u])])

\* new Date(timestamp * 1000) is an invalid date, on which toISOString
\* throws a RangeError, for the start or the end of the reading
InvalidTime(reading) ==
    /\ reading.timePeriod # Null
    /\ \/ reading.timePeriod.start = Huge
       \/ /\ Truthy(reading.timePeriod.start) /\ Truthy(reading.timePeriod.duration)
          /\ reading.timePeriod.duration = Huge

\* toFlatData throws: one of the readings it makes a row of has a time that
\* is no valid date
ToFlatDataThrows(pd) ==
    \E u \in 1..Len(pd.usagePoints.keys) :
        LET meterReadings ==
                GetOrEmpty(pd.relationships.usagePointToMeterReadings, pd.usagePoints.keys[u])
        IN  \E m \in 1..Len(meterReadings) :
                /\ MapHas(pd.meterReadings, meterReadings[m])
                /\ LET blocks == GetOrEmpty(pd.relationships.meterReadingToIntervalBlocks,
                                            meterReadings[m])
                   IN  \E b \in 1..Len(blocks) :
                           /\ MapHas(pd.intervalBlocks, blocks[b])
                           /\ \E k \in 1..Len(pd.intervalBlocks.val[blocks[b]].intervalReadings) :
                                  InvalidTime(pd.intervalBlocks.val[blocks[b]].intervalReadings[k])

-----------------------------------------------------------------------------
(* Input documents *)

Link(rel, href) == [rel |-> Str(rel), href |-> Str(href)]

Entry(id, links, content) == [id |-> Str(id), link |-> links, content |-> content]

UsagePointContent(kind) ==
    [UsagePoint |-> [ServiceCategory |-> [kind |-> kind], description |-> Null]]

MeterReadingContent == [MeterReading |-> [tag |-> "MeterReading"]]

ReadingTypeContent(commodity, uom, multiplier, intervalLength) ==
    [ReadingType |->
        [accumulationBehaviour |-> Str("4"), commodity |-> commodity,
         currency |-> Str("840"), dataQualifier |-> Str("12"),
         flowDirection |-> Str("1"), intervalLength |-> intervalLength,
         kind |-> Str("12"), phase |-> Null, powerOfTenMultiplier |-> multiplier,
         timeAttribute |-> Str("abc"), uom |-> uom]]

TimePeriodElement(start, duration) == [start |-> start, duration |-> duration]

ReadingElement(timePeriod, value, cost) ==
    [timePeriod |-> timePeriod, value |-> value, cost |-> cost, qualityFlags |-> Null]

IntervalBlockContent(readings) ==
    [IntervalBlock |->
        [interval |-> [duration |-> Str("86400"), start |-> Str("1609459200")],
         IntervalReading |-> readings]]

\* two usage points with a MeterReading link, one with a link of another kind
U1 == Entry("u1", <<Link("self", "/UsagePoint/1"),
                    Link("related", "/UsagePoint/1/MeterReading")>>,
            UsagePointContent(Str("0")))
U2 == Entry("u2", <<Link("related", "/UsagePoint/2/MeterReading")>>,
            UsagePointContent(Str("1")))
U3 == Entry("u3", <<Link("self", "/UsagePoint/3"),
                    Link("related", "/LocalTimeParameters/1")>>,
            UsagePointContent(Null))

\* a meter reading linked to blocks and types, one linked to blocks, one to neither
M1 == Entry("m1", <<Link("related", "/UsagePoint/1/MeterReading/1/IntervalBlock"),
                    Link("related", "/ReadingType/1")>>, MeterReadingContent)
M2 == Entry("m2", <<Link("related", "/UsagePoint/1/MeterReading/2/IntervalBlock")>>,
            MeterReadingContent)
M3 == Entry("m3", <<Link("self", "/UsagePoint/1/MeterReading/3")>>, MeterReadingContent)

B1 == Entry("b1", <<>>, IntervalBlockContent(
        <<ReadingElement(TimePeriodElement(Str("1609459200"), Str("900")),
                         Str("7"), Str("256347")),
          ReadingElement(TimePeriodElement(Str("1609460100"), Str("900")),
                         Str("12"), Null)>>))
B2 == Entry("b2", <<>>, IntervalBlockContent(
        <<ReadingElement(TimePeriodElement(Str("1609545600"), Str("3600")),
                         Str("3"), Str("42"))>>))

R1 == Entry("r1", <<>>, ReadingTypeContent(Str("1"), Str("72"), Str("1"), Str("900")))
R2 == Entry("r2", <<>>, ReadingTypeContent(Str("999"), Null, Null, Str("3600")))

Templates == {U1, U2, U3, M1, M2, M3, B1, B2, R1, R2}

\* sequences of distinct templates, at most n long
RECURSIVE DistinctSeqs(_)
DistinctSeqs(n) ==
    IF n = 0 THEN {<<>>}
    ELSE LET shorter == DistinctSeqs(n - 1)
         IN  shorter \cup
             UNION {{Append(es, e) : e \in {x \in Templates :
                                              \A i \in 1..Len(es) : es[i] # x}} :
                    es \in {x \in shorter : Len(x) = n - 1}}

FeedElement == [id |-> Str("urn:feed:1"), title |-> Str("Green Button"),
                updated |-> Str("2021-01-01T00:00:00Z")]

Document(entries) == [parserError |-> Null, feed |-> FeedElement, entry |-> entries]

\* the structural family: feeds that differ in which entries they hold, in which order
StructuralDocuments == {Document(es) : es \in DistinctSeqs(MaxEntries)}

\* longer feeds: several reading types, usage points and meter readings at once
ScenarioDocuments ==
    {Document(<<U1, M1, B1, R1, R2>>),
     Document(<<R2, R1, B2, B1, M1, U1>>),
     Document(<<U1, M1, R1, R2>>),
     Document(<<U2, U1, M2, M1, B2, B1>>),
     Document(<<U2, U1, U3, M2, M1, M3, B2, B1, R2, R1>>),
     Document(<<R1, B1, M1, M3, M2, U3, U1, U2, B2, R2>>)}

\* a meter reading whose link relation names an inherited property, and an
\* entry without content that carries the same link
X1 == Entry("x1", <<Link("related", "/UsagePoint/1/MeterReading/9/IntervalBlock"),
                    Link("constructor", "/x")>>, MeterReadingContent)
X2 == Entry("x2", <<Link("constructor", "/x")>>, Null)

\* documents parseXML fails on: a parser error, no feed element, or an entry
\* that makes extractLinks throw
RejectedDocuments ==
    {[parserError |-> Str("unclosed tag"), feed |-> Null, entry |-> <<>>],
     [parserError |-> Str("unclosed tag"), feed |-> FeedElement, entry |-> <<U1, M1>>],
     [parserError |-> Null, feed |-> Null, entry |-> <<>>],
     [parserError |-> Null, feed |-> Null, entry |-> <<U1, M1, B1>>],
     Document(<<X1>>), Document(<<X2, U1, M1, B1, X1>>),
     Document(<<U1, M1, X1, B1>>), Document(<<U1, M1, B2, X2>>)}

IntToStr(k) == IF k < 0 THEN "-" \o NatToStr(0 - k) ELSE NatToStr(k)

ValueTexts == {Null, Str(""), Str("0"), Str(" 7 "), Str("-3"), Str("abc"), Str("12kWh")}

CostTexts == {Null, Str("0"), Str("7"), Str("256347"), Str("n/a")}

MultiplierTexts == {Null, Str("abc")} \cup {Str(IntToStr(k)) : k \in (0 - MaxPow)..MaxPow}

StartTexts == {Null, Str("0"), Str("1609459200"), Str("-900"), Str("soon")}

DurationTexts == {Null, Str("0"), Str("900")}

TimePeriodElements ==
    {Null} \cup {TimePeriodElement(s, d) : s \in StartTexts, d \in DurationTexts}

\* one usage point, meter reading, reading type and interval block with one reading
FieldDocument(multiplier, reading) ==
    Document(<<U1, M1,
               Entry("r1", <<>>, ReadingTypeContent(Str("1"), Str("72"), multiplier, Str("900"))),
               Entry("b1", <<>>, IntervalBlockContent(<<reading>>))>>)

\* the field family: feeds that differ in the texts of one interval reading
FieldDocuments ==
    {FieldDocument(p, ReadingElement(TimePeriodElement(Str("1609459200"), Str("900")), v, c) ) :
        p \in MultiplierTexts, v \in ValueTexts, c \in {Str("256347")}}
    \cup {FieldDocument(p, ReadingElement(TimePeriodElement(Str("1609459200"), Str("900")), v, c) ) :
        p \in MultiplierTexts, v \in {Str(" 7 ")}, c \in CostTexts}
    \cup {FieldDocument(Str("0"), ReadingElement(tp, Str(" 7 "), Str("256347"))) :
        tp \in TimePeriodElements}

CodeTexts == {Null, Str(""), Str("0"), Str("1"), Str("72"), Str("999"), Str("abc")}

\* the attribute family: feeds that differ in the coded attributes of one resource
AttributeDocuments ==
    {Document(<<Entry("u1", <<Link("related", "/UsagePoint/1/MeterReading")>>,
                      UsagePointContent(k)), M1, B2, R1>>) : k \in CodeTexts}
    \cup {Document(<<U1, M1, B2, Entry("r1", <<>>, ReadingTypeContent(k, Str("72"), Null, k))>>) :
            k \in CodeTexts}
    \cup {Document(<<U1, M1, B2, Entry("r1", <<>>, ReadingTypeContent(Null, k, Null, Null))>>) :
            k \in CodeTexts}

LocalTimeParametersContent ==
    [LocalTimeParameters |->
        [dstEndRule |-> Str("B40E2000"), dstOffset |-> Str("3600"),
         dstStartRule |-> Str("360E2000"), tzOffset |-> Str("-18000")]]

UsageSummaryElement ==
    [billingPeriod |-> [duration |-> Str("2592000"), start |-> Str("1609459200")],
     billLastPeriod |-> Str("15303000"), billToDate |-> Null,
     overallConsumptionLastPeriod |->
        [powerOfTenMultiplier |-> Str("0"), uom |-> Str("72"), value |-> Str("610314")],
     currency |-> Str("840")]

UsageSummaryContent == [UsageSummary |-> UsageSummaryElement]

ElectricPowerUsageSummaryContent == [ElectricPowerUsageSummary |-> UsageSummaryElement]

\* entries of the two resource types no row is built from
L1 == Entry("l1", <<Link("self", "/LocalTimeParameters/1")>>, LocalTimeParametersContent)
S1 == Entry("s1", <<>>, UsageSummaryContent)
S2 == Entry("s2", <<>>, ElectricPowerUsageSummaryContent)

\* entries whose content holds elements of several resource types
K1 == Entry("k1", <<Link("related", "/UsagePoint/1/MeterReading")>>,
            MeterReadingContent @@ UsagePointContent(Str("0")))
K2 == Entry("k2", <<Link("related", "/UsagePoint/1/MeterReading/1/IntervalBlock")>>,
            ReadingTypeContent(Str("1"), Str("72"), Str("0"), Str("900"))
            @@ IntervalBlockContent(<<ReadingElement(
                    TimePeriodElement(Str("1609459200"), Str("900")), Str("5"), Null)>>)
            @@ MeterReadingContent)
K3 == Entry("k3", <<>>,
            UsageSummaryContent @@ LocalTimeParametersContent
            @@ ReadingTypeContent(Str("1"), Str("72"), Str("0"), Str("900")))
K4 == Entry("k4", <<>>, ElectricPowerUsageSummaryContent @@ LocalTimeParametersContent)
K5 == Entry("k5", <<>>,
            UsageSummaryContent
            @@ IntervalBlockContent(<<ReadingElement(
                    TimePeriodElement(Str("1609459200"), Str("900")), Str("9"), Str("11"))>>))

\* entries that file nothing: no content element, or a content without a resource
N1 == Entry("n1", <<Link("self", "/Subscription/1")>>, Null)
N2 == Entry("n2", <<>>, [ApplicationInformation |-> [dataCustodianId |-> Str("dc")]])

\* an entry that repeats the id of U1 with another resource type
D1 == Entry("u1", <<>>, MeterReadingContent)

MixedTemplates == {U1, M1, L1, S1, S2, K1, K2, K3, K4, K5, N1, N2, D1}

\* longest feed of the classification family, in entries
MaxMixed == 2

\* sequences of mixed templates, at most n long (an entry may repeat)
RECURSIVE MixedSeqs(_)
MixedSeqs(n) ==
    IF n = 0 THEN {<<>>}
    ELSE LET shorter == MixedSeqs(n - 1)
         IN  shorter \cup
             UNION {{Append(es, e) : e \in MixedTemplates} :
                    es \in {x \in shorter : Len(x) = n - 1}}

\* the classification family: feeds whose entries differ in the shape of their content
ClassificationDocuments ==
    {Document(es) : es \in MixedSeqs(MaxMixed)}
    \cup {Document(<<N1, K1, K2, B1, K3, K4, K5, N2, L1, S1, S2>>),
          Document(<<U1, N1, M1, N2, B1, N1, R1>>),
          Document(<<K5, K4, K3, K2, K1, N1, D1, U1>>),
          Document(<<N1>>), Document(<<N1, N2, X2>>)}

\* an interval block whose readings carry quality flags: plain, with a comma,
\* with a double quote, with a space at the end of a line and a newline inside
B3 == Entry("b3", <<>>, IntervalBlockContent(
        <<[timePeriod |-> TimePeriodElement(Str("1609459200"), Str("900")),
           value |-> Str("7"), cost |-> Str("11"), qualityFlags |-> Str("0")],
          [timePeriod |-> TimePeriodElement(Str("1609460100"), Str("900")),
           value |-> Str("8"), cost |-> Null, qualityFlags |-> Str("1, 2")],
          [timePeriod |-> TimePeriodElement(Str("1609461000"), Str("900")),
           value |-> Str("9"), cost |-> Null, qualityFlags |-> Str("say \"ok\"")],
          [timePeriod |-> Null,
           value |-> Null, cost |-> Str("5"), qualityFlags |-> Str("a \nb")]>>))

\* the quality family: feeds whose rows hold text that CSV has to quote
QualityDocuments ==
    {Document(<<U1, M1, B3, R1>>), Document(<<U3, U1, M1, B1, B3>>)}

Documents ==
    StructuralDocuments \cup ScenarioDocuments \cup RejectedDocuments
    \cup FieldDocuments \cup AttributeDocuments \cup ClassificationDocuments
    \cup QualityDocuments

-----------------------------------------------------------------------------
(* CSVExporter (src/csvExporter.js).  An array is a record of its items, an  *)
(* object a record of its keys, in insertion order, and of its values.       *)

Undefined == [t |-> "undefined"]

\* a JavaScript array
Array(items) == [t |-> "array", items |-> items]

\* an object literal with the keys in the order written
Object(keys, val) == [t |-> "object", keys |-> keys, val |-> val]

\* value === null || value === undefined
IsNullish(value) == value = Null \/ value = Undefined

\* !value
Not(value) == value = Undefined \/ ~Truthy(value)

\* typeof value === 'object' && value !== null
IsObject(value) == value.t \in {"object", "array"}

\* Object.keys(value) of an object or of a number (which has no keys)
ObjectKeys(value) ==
    IF value.t = "object" THEN value.keys
    ELSE IF value.t = "array" THEN [i \in 1..Len(value.items) |-> NatToStr(i - 1)]
    ELSE <<>>

\* row[header]
Get(row, header) ==
    IF row.t = "object" /\ header \in DOMAIN row.val THEN row.val[header]
    ELSE IF row.t = "array" /\ \E i \in 1..Len(row.items) : NatToStr(i - 1) = header
         THEN row.items[CHOOSE i \in 1..Len(row.items) : NatToStr(i - 1) = header]
    ELSE Undefined

\* the digits of a non-integer product m * 10^e (e < 0).  They are those of
\* the exact decimal; a double may differ from it in its last digits.
DecToStr(m, e) ==
    (IF m < 0 THEN "-" ELSE "")
    \o NatToStr(Abs(m) \div Pow10(0 - e)) \o "." \o Pad(Abs(m) % Pow10(0 - e), 0 - e)

\* String(value)
String(value) ==
    CASE value.t = "str" -> value.s
      [] value.t = "int" -> IntToStr(value.v)
      [] value.t = "dec" -> DecToStr(value.m, value.e)
      [] value.t = "nan" -> "NaN"
      [] value.t = "null" -> "null"
      [] value.t = "undefined" -> "undefined"
      [] value.t = "object" -> "[object Object]"

\* array.join(separator) of an array of strings
RECURSIVE Join(_, _)
Join(strings, separator) ==
    IF Len(strings) = 0 THEN ""
    ELSE IF Len(strings) = 1 THEN strings[1]
    ELSE Join(SubSeq(strings, 1, Len(strings) - 1), separator)
         \o separator \o strings[Len(strings)]

StartsWith(s, prefix) == Len(s) >= Len(prefix) /\ SubSeq(s, 1, Len(prefix)) = prefix

EndsWith(s, suffix) ==
    Len(s) >= Len(suffix) /\ SubSeq(s, Len(s) - Len(suffix) + 1, Len(s)) = suffix

\* a variant that quotes without doubling the quotes inside
KeepQuotes(s) == s

\* value.replace(/"/g, '""')
RECURSIVE DoubleQuotes(_)
DoubleQuotes(s) ==
    IF Len(s) = 0 THEN ""
    ELSE (IF CharAt(s, 1) = "\"" THEN "\"\"" ELSE CharAt(s, 1))
         \o DoubleQuotes(SubSeq(s, 2, Len(s)))

NeedsQuoting(value) ==
    \/ Includes(value, ",")
    \/ Includes(value, "\"")
    \/ Includes(value, "\n")
    \/ Includes(value, "\r")
    \/ StartsWith(value, " ")
    \/ EndsWith(value, " ")

\* the text of one cell: convertToCSV's map callback and formatCSVRow's are the same
Cell(value) ==
    IF IsNullish(value) THEN ""
    ELSE IF NeedsQuoting(String(value))
         THEN "\"" \o DoubleQuotes(String(value)) \o "\""
         ELSE String(value)

FormatCSVRow(values) == Join([i \in 1..Len(values) |-> Cell(values[i])], ",")

\* this.defaultHeaders
DefaultHeaders ==
    Array(<<Str("usage_point_id"), Str("meter_reading_id"), Str("interval_block_id"),
            Str("reading_type_id"), Str("service_category"), Str("commodity"),
            Str("uom"), Str("power_multiplier"), Str("start_time"), Str("duration"),
            Str("end_time"), Str("value"), Str("cost"), Str("quality_flags"),
            Str("interval_length"), Str("calculated_value"), Str("calculated_cost")>>)

\* what a call gives back: a value, or the error it throws
Returns(value) == [t |-> "return", value |-> value]
Throws(name, message) == [t |-> "throw", name |-> name, message |-> message]

\* the message of a TypeError is the engine's; the model keeps its kind only
TypeError == Throws("TypeError", "TypeError")

\* headers || Object.keys(data[0]) || this.defaultHeaders (an array is truthy)
CsvHeaders(data, headers) ==
    OrElse(IF Not(headers) THEN Null ELSE headers,
           OrElse(Array([i \in 1..Len(ObjectKeys(data.items[1])) |->
                            Str(ObjectKeys(data.items[1])[i])]),
                  DefaultHeaders))

\* convertToCSV past its first check: the header row and one row per item
ConvertRows(data, headers) ==
    IF data.t # "array" THEN TypeError
    ELSE IF Not(headers) /\ IsNullish(data.items[1]) THEN TypeError
    ELSE IF \E i \in 1..Len(data.items) :
                IsNullish(data.items[i]) /\ Len(CsvHeaders(data, headers).items) > 0
         THEN TypeError
    ELSE LET csvHeaders == CsvHeaders(data, headers).items
             Values(row) == [h \in 1..Len(csvHeaders) |-> Get(row, String(csvHeaders[h]))]
         IN  Returns(Str(Join(
                <<FormatCSVRow(csvHeaders)>>
                \o [i \in 1..Len(data.items) |-> FormatCSVRow(Values(data.items[i]))],
                "\n")))

\* a variant that returns the header row alone when there is no data
HeaderRowWithoutData(data, headers) ==
    IF Not(data) \/ (data.t = "array" /\ Len(data.items) = 0)
    THEN Returns(Str(FormatCSVRow(OrElse(IF Not(headers) THEN Null ELSE headers,
                                         DefaultHeaders).items)))
    ELSE ConvertRows(data, headers)

\* convertToCSV(data, headers): the CSV text, or the error thrown
ConvertToCSV(data, headers) ==
    IF Not(data) \/ (data.t = "array" /\ Len(data.items) = 0)
    THEN Throws("Error", "No data provided for CSV conversion")
    ELSE ConvertRows(data, headers)

\* result.isValid = false; result.errors.push(error); return result
Invalid(error, totalRows) ==
    [isValid |-> FALSE, errors |-> <<error>>, warnings |-> <<>>,
     stats |-> [totalRows |-> totalRows, totalColumns |-> 0,
                emptyValues |-> 0, nullValues |-> 0]]

\* the warning the loop of validateData pushes for row i, if any
RowWarning(row, i, headers) ==
    IF ~IsObject(row) THEN <<"Row " \o NatToStr(i) \o " is not an object">>
    ELSE IF Len(ObjectKeys(row)) # Len(headers)
         THEN <<"Row " \o NatToStr(i) \o " has " \o NatToStr(Len(ObjectKeys(row)))
                \o " columns, expected " \o NatToStr(Len(headers))>>
         ELSE <<>>

\* the cells (row i, header h) of the rows that are objects
Cells(data, headers) ==
    {p \in (1..Len(data.items)) \X (1..Len(headers)) : IsObject(data.items[p[1]])}

\* nullCount and emptyCount after the loop
NullCount(data, headers) ==
    Cardinality({p \in Cells(data, headers) :
                    IsNullish(Get(data.items[p[1]], headers[p[2]]))})

EmptyCount(data, headers) ==
    Cardinality({p \in Cells(data, headers) :
                    /\ ~IsNullish(Get(data.items[p[1]], headers[p[2]]))
                    /\ Trim(String(Get(data.items[p[1]], headers[p[2]]))) = ""})

\* ((count / totalValues) * 100).toFixed(1)
PercentToFixed1(count, totalValues) ==
    NatToStr(RoundDiv(count * 1000, totalValues) \div 10) \o "."
    \o DigitChar(RoundDiv(count * 1000, totalValues) % 10)

\* a variant that warns from 10 % on
PercentWarningFromTen(count, totalValues, what) ==
    IF totalValues > 0 /\ count * 100 >= 10 * totalValues
    THEN <<PercentToFixed1(count, totalValues) \o "% of values are " \o what>>
    ELSE <<>>

\* the data-quality warning for a count that is above 10 % of the values
\* (0 / 0 is NaN, which is not above 10)
PercentWarning(count, totalValues, what) ==
    IF totalValues > 0 /\ count * 100 > 10 * totalValues
    THEN <<PercentToFixed1(count, totalValues) \o "% of values are " \o what>>
    ELSE <<>>

\* the checks of validateData before result.stats.totalRows is set
RejectedData(data) ==
    IF Not(data) THEN Invalid("No data provided", 0)
    ELSE IF data.t # "array" THEN Invalid("Data must be an array", 0)
    ELSE IF Len(data.items) = 0 THEN Invalid("Data array is empty", 0)
    ELSE Null

\* a variant that reports a row with another key count as an error
RaggedRowsAreErrors(data) ==
    LET headers == ObjectKeys(data.items[1])
        ragged == Concat([i \in 1..Len(data.items) |->
                            RowWarning(data.items[i], i, headers)])
    IN  [isValid |-> Len(ragged) = 0, errors |-> ragged, warnings |-> <<>>,
         stats |-> [totalRows |-> Len(data.items), totalColumns |-> Len(headers),
                    emptyValues |-> EmptyCount(data, headers),
                    nullValues |-> NullCount(data, headers)]]

\* validateData past the check of the first row: the scan of the rows
ScanRows(data) ==
    LET headers == ObjectKeys(data.items[1])
        totalValues == Len(data.items) * Len(headers)
    IN  [isValid |-> TRUE, errors |-> <<>>,
         warnings |->
            Concat([i \in 1..Len(data.items) |-> RowWarning(data.items[i], i, headers)])
            \o PercentWarning(EmptyCount(data, headers), totalValues, "empty")
            \o PercentWarning(NullCount(data, headers), totalValues, "null"),
         stats |-> [totalRows |-> Len(data.items), totalColumns |-> Len(headers),
                    emptyValues |-> EmptyCount(data, headers),
                    nullValues |-> NullCount(data, headers)]]

\* validateData(data)
ValidateData(data) ==
    IF RejectedData(data) # Null THEN RejectedData(data)
    ELSE IF ~IsObject(data.items[1])
         THEN Invalid("Data rows must be objects", Len(data.items))
    ELSE ScanRows(data)

\* the object generatePreview returns for no data
EmptyPreview == [headers |-> <<>>, rows |-> <<>>, totalRows |-> 0, isPreview |-> FALSE]

\* items.slice(0, end): a negative end counts from the end of the array
Slice(items, end) ==
    IF end < 0
    THEN SubSeq(items, 1, IF Len(items) + end > 0 THEN Len(items) + end ELSE 0)
    ELSE SubSeq(items, 1, IF end < Len(items) THEN end ELSE Len(items))

\* the parameter maxRows = 10: the default stands for an argument left out
MaxRowsOrDefault(maxRows) == IF maxRows = Undefined THEN 10 ELSE maxRows.v

\* a variant that calls a table of exactly maxRows rows a preview
PreviewFromMaxRows(data, maxRows) ==
    IF Not(data) \/ (data.t = "array" /\ Len(data.items) = 0) THEN Returns(EmptyPreview)
    ELSE IF data.t # "array" \/ IsNullish(data.items[1]) THEN TypeError
    ELSE Returns([headers |-> ObjectKeys(data.items[1]),
                  rows |-> Slice(data.items, MaxRowsOrDefault(maxRows)),
                  totalRows |-> Len(data.items),
                  isPreview |-> Len(data.items) >= MaxRowsOrDefault(maxRows)])

\* generatePreview(data, maxRows): Object.keys throws on a first row that is
\* null or undefined, and on data that has no first row
GeneratePreview(data, maxRows) ==
    IF Not(data) \/ (data.t = "array" /\ Len(data.items) = 0) THEN Returns(EmptyPreview)
    ELSE IF data.t # "array" \/ IsNullish(data.items[1]) THEN TypeError
    ELSE Returns([headers |-> ObjectKeys(data.items[1]),
                  rows |-> Slice(data.items, MaxRowsOrDefault(maxRows)),
                  totalRows |-> Len(data.items),
                  isPreview |-> Len(data.items) > MaxRowsOrDefault(maxRows)])

\* day number, counted from 1970-01-01, of a civil date
DaysFromCivil(y, m, d) ==
    LET yy == IF m <= 2 THEN y - 1 ELSE y
        era == yy \div 400
        yoe == yy - era * 400
        doy == ((153 * (IF m > 2 THEN m - 3 ELSE m + 9) + 2) \div 5) + d - 1
        doe == yoe * 365 + (yoe \div 4) - (yoe \div 100) + doy
    IN  era * 146097 + doe - 719468

\* new Date(text).getTime() / 1000 for a text YYYY-MM-DDTHH:MM:SS.000Z
DateOf(text) ==
    DaysFromCivil(DigitsValue(text, 1, 4), DigitsValue(text, 6, 7),
                  DigitsValue(text, 9, 10)) * 86400
    + DigitsValue(text, 12, 13) * 3600 + DigitsValue(text, 15, 16) * 60
    + DigitsValue(text, 18, 19)

\* the members of a Set after add(value) for each value that is truthy, in
\* the order of their first insertion
RECURSIVE SetOfTruthy(_)
SetOfTruthy(values) ==
    IF Len(values) = 0 THEN <<>>
    ELSE LET before == SetOfTruthy(SubSeq(values, 1, Len(values) - 1))
             value == values[Len(values)]
         IN  IF ~Truthy(value) \/ (\E i \in 1..Len(before) : before[i] = value)
             THEN before ELSE Append(before, value)

\* typeof value === 'number' (NaN is a number)
IsNumber(value) == value.t \in {"int", "nan", "dec"}

\* total += value for each value that is a number, from 0; a NaN makes it NaN
RECURSIVE SumOfNumbers(_)
SumOfNumbers(values) ==
    IF Len(values) = 0 THEN IntV(0)
    ELSE LET total == SumOfNumbers(SubSeq(values, 1, Len(values) - 1))
             value == values[Len(values)]
         IN  IF ~IsNumber(value) THEN total
             ELSE IF total.t = "nan" \/ value.t = "nan" THEN NaN
             ELSE IntV(total.v + value.v)

\* a variant that takes the range from the first and the last row
DateRangeOfEnds(startTimes) ==
    IF Len(startTimes) = 0 \/ ~Truthy(startTimes[1]) \/ ~Truthy(startTimes[Len(startTimes)])
    THEN [min |-> Null, max |-> Null]
    ELSE [min |-> IntV(DateOf(startTimes[1].s)),
          max |-> IntV(DateOf(startTimes[Len(startTimes)].s))]

\* stats.dateRange after the loop: min and max are Dates, or both still null
RECURSIVE DateRangeOf(_)
DateRangeOf(startTimes) ==
    IF Len(startTimes) = 0 THEN [min |-> Null, max |-> Null]
    ELSE LET range == DateRangeOf(SubSeq(startTimes, 1, Len(startTimes) - 1))
             start == startTimes[Len(startTimes)]
         IN  IF ~Truthy(start) THEN range
             ELSE [min |-> IF range.min = Null \/ DateOf(start.s) < range.min.v
                           THEN IntV(DateOf(start.s)) ELSE range.min,
                   max |-> IF range.max = Null \/ DateOf(start.s) > range.max.v
                           THEN IntV(DateOf(start.s)) ELSE range.max]

\* the dateRange of the result: the two dates as ISO texts, or null
DateRange(startTimes) ==
    IF DateRangeOf(startTimes).min # Null
    THEN [min |-> Str(ToISOString(DateRangeOf(startTimes).min.v)),
          max |-> Str(ToISOString(DateRangeOf(startTimes).max.v))]
    ELSE Null

\* generateSummaryStats(data) of an array of flat rows
GenerateSummaryStats(rows) ==
    IF Len(rows) = 0
    THEN [totalIntervals |-> 0, usagePoints |-> 0, meterReadings |-> 0,
          totalEnergyValue |-> IntV(0), totalCost |-> IntV(0), dateRange |-> Null,
          commodities |-> <<>>]
    ELSE [totalIntervals |-> Len(rows),
          usagePoints |->
            Len(SetOfTruthy([i \in 1..Len(rows) |-> rows[i].usage_point_id])),
          meterReadings |->
            Len(SetOfTruthy([i \in 1..Len(rows) |-> rows[i].meter_reading_id])),
          totalEnergyValue |-> SumOfNumbers([i \in 1..Len(rows) |-> rows[i].value]),
          totalCost |-> SumOfNumbers([i \in 1..Len(rows) |-> rows[i].cost]),
          dateRange |-> DateRange([i \in 1..Len(rows) |-> rows[i].start_time]),
          commodities |-> SetOfTruthy([i \in 1..Len(rows) |-> rows[i].commodity])]

\* a variant that lists the keys by name
FlatRowKeysByName ==
    <<"calculated_cost", "calculated_value", "commodity", "cost", "duration",
      "end_time", "interval_block_id", "interval_length", "meter_reading_id",
      "power_multiplier", "quality_flags", "reading_type_id", "service_category",
      "start_time", "uom", "usage_point_id", "value">>

\* the keys of the object literal toFlatData pushes, in the order written
FlatRowKeys ==
    <<"usage_point_id", "meter_reading_id", "interval_block_id", "reading_type_id",
      "service_category", "commodity", "uom", "power_multiplier", "start_time",
      "duration", "end_time", "value", "cost", "quality_flags", "interval_length",
      "calculated_value", "calculated_cost">>

\* the array toFlatData returns: each row an object with its keys in that order
FlatDataArray(rows) == Array([i \in 1..Len(rows) |-> Object(FlatRowKeys, rows[i])])

\* the options of exportGreenButtonData after the defaults
Options(downloadFile, includeMetadata) ==
    [filename |-> "green_button_data.csv", downloadFile |-> downloadFile,
     includeMetadata |-> includeMetadata]

\* metadataComments.join('\n') + '\n' + csvContent
WithMetadataComments(metadata, now, dataRows, csvContent) ==
    Join(<<"# Green Button Data Export",
           "# Generated: " \o ToISOString(now),
           "# Feed ID: " \o OrElse(metadata.feedId, Str("N/A")).s,
           "# Feed Title: " \o OrElse(metadata.feedTitle, Str("N/A")).s,
           "# Total Entries: " \o NatToStr(metadata.totalEntries),
           "# Data Rows: " \o NatToStr(dataRows),
           "#">>, "\n") \o "\n" \o csvContent

\* a variant whose failure keeps the name of the file and an empty CSV text
ExportFailureWithOutput(message) ==
    [success |-> FALSE, error |-> message, csvContent |-> Str(""),
     filename |-> Str("green_button_data.csv"), stats |-> Null, validation |-> Null]

\* the object of the catch block of exportGreenButtonData
ExportFailure(message) ==
    [success |-> FALSE, error |-> message, csvContent |-> Null, filename |-> Null,
     stats |-> Null, validation |-> Null]

\* exportGreenButtonData(parsedData, options) on the document pd:
\* downloadError is the message of the error downloadCSV throws (Null when
\* the download works), now the clock, in seconds, when the comments are written
ExportGreenButtonData(pd, options, downloadError, now) ==
    LET rows == FlatDataArray(ToFlatData(pd))
        validation == ValidateData(rows)
        csvContent == ConvertToCSV(rows, Null)
        finalCsvContent ==
            IF options.includeMetadata
            THEN WithMetadataComments(pd.metadata, now, Len(rows.items),
                                      csvContent.value.s)
            ELSE csvContent.value.s
    IN  IF ToFlatDataThrows(pd) THEN ExportFailure("Invalid time value")
        ELSE IF ~validation.isValid
        THEN ExportFailure("Data validation failed: " \o Join(validation.errors, ", "))
        ELSE IF csvContent.t = "throw" THEN ExportFailure(csvContent.message)
        ELSE IF options.downloadFile /\ downloadError # Null
        THEN ExportFailure("Failed to download CSV file: " \o downloadError.s)
        ELSE [success |-> TRUE, csvContent |-> Str(finalCsvContent),
              filename |-> Str(options.filename),
              stats |-> [totalRows |-> Len(rows.items),
                         totalColumns |-> Len(ObjectKeys(rows.items[1])),
                         fileSize |-> Len(finalCsvContent)],
              validation |-> validation]

-----------------------------------------------------------------------------
(* parseXML, one call c at a time.  The function is async: it runs to its    *)
(* first await (the first parseEntry), resumes once per entry and returns    *)
(* after buildRelationships; the caller then flattens the document.          *)

\* a variant whose parser keeps one parsedData for all its calls: a call
\* that starts while another is under way goes on with that call's object
NewParsedDataOfParser(doc) ==
    IF \E c \in DOMAIN parsedData : parsedData[c] # Null
    THEN parsedData[CHOOSE c \in DOMAIN parsedData : parsedData[c] # Null]
    ELSE [metadata |-> [feedId |-> GetTextContent(doc.feed, "id"),
                        feedTitle |-> GetTextContent(doc.feed, "title"),
                        updated |-> GetTextContent(doc.feed, "updated"),
                        totalEntries |-> Len(doc.entry)],
          usagePoints |-> EmptyMap,
          meterReadings |-> EmptyMap,
          intervalBlocks |-> EmptyMap,
          readingTypes |-> EmptyMap,
          localTimeParameters |-> EmptyMap,
          usageSummaries |-> EmptyMap,
          relationships |-> [usagePointToMeterReadings |-> EmptyMap,
                             meterReadingToIntervalBlocks |-> EmptyMap,
                             meterReadingToReadingTypes |-> EmptyMap]]

\* a variant that counts only the entries with a content element
NewParsedDataCountingContent(doc) ==
    [metadata |-> [feedId |-> GetTextContent(doc.feed, "id"),
                   feedTitle |-> GetTextContent(doc.feed, "title"),
                   updated |-> GetTextContent(doc.feed, "updated"),
                   totalEntries |->
                        Len(SelectSeq(doc.entry, LAMBDA e : e.content # Null))],
     usagePoints |-> EmptyMap,
     meterReadings |-> EmptyMap,
     intervalBlocks |-> EmptyMap,
     readingTypes |-> EmptyMap,
     localTimeParameters |-> EmptyMap,
     usageSummaries |-> EmptyMap,
     relationships |-> [usagePointToMeterReadings |-> EmptyMap,
                        meterReadingToIntervalBlocks |-> EmptyMap,
                        meterReadingToReadingTypes |-> EmptyMap]]

\* const parsedData = {...}; parsedData.metadata.totalEntries = entries.length
NewParsedData(doc) ==
    [metadata |-> [feedId |-> GetTextContent(doc.feed, "id"),
                   feedTitle |-> GetTextContent(doc.feed, "title"),
                   updated |-> GetTextContent(doc.feed, "updated"),
                   totalEntries |-> Len(doc.entry)],
     usagePoints |-> EmptyMap,
     meterReadings |-> EmptyMap,
     intervalBlocks |-> EmptyMap,
     readingTypes |-> EmptyMap,
     localTimeParameters |-> EmptyMap,
     usageSummaries |-> EmptyMap,
     relationships |-> [usagePointToMeterReadings |-> EmptyMap,
                        meterReadingToIntervalBlocks |-> EmptyMap,
                        meterReadingToReadingTypes |-> EmptyMap]]

\* a variant that drops the cause
ParseFailureWithoutCause(causeMessage) ==
    [t |-> "error", message |-> "Failed to parse Green Button XML"]

\* the Error of the catch block
ParseFailure(causeMessage) ==
    [t |-> "error", message |-> "Failed to parse Green Button XML: " \o causeMessage]

\* return parsedData
ParseSuccess(pd) == [t |-> "ok", document |-> pd]

\* the two throws of the try block; Null when neither is taken
ThrownBeforeEntries(doc) ==
    IF doc.parserError # Null THEN Str("XML parsing error: " \o doc.parserError.s)
    ELSE IF doc.feed = Null THEN Str("Invalid Green Button file: No feed element found")
    ELSE Null

\* the loop of parseXML from entry n on, then buildRelationships and the
\* return, or the catch block when an entry throws
RECURSIVE ParseEntries(_, _, _)
ParseEntries(doc, n, pd) ==
    IF n > Len(doc.entry) THEN ParseSuccess(BuildRelationships(pd))
    ELSE IF EntryOutcome(doc.entry[n], pd).t = "throw"
         THEN ParseFailure(EntryOutcome(doc.entry[n], pd).message)
    ELSE ParseEntries(doc, n + 1, EntryOutcome(doc.entry[n], pd).pd)

\* parseXML(xmlContent) from its call to its return or throw, when nothing
\* else runs in between
ParseXML(doc) ==
    IF ThrownBeforeEntries(doc) # Null THEN ParseFailure(ThrownBeforeEntries(doc).s)
    ELSE ParseEntries(doc, 1, NewParsedData(doc))

\* the call fails before it reads an entry
ParseXMLThrow(c) ==
    /\ pc[c] = "start"
    /\ ThrownBeforeEntries(xml[c]) # Null
    /\ result' = [result EXCEPT ![c] = ParseFailure(ThrownBeforeEntries(xml[c]).s)]
    /\ pc' = [pc EXCEPT ![c] = "failed"]
    /\ UNCHANGED <<xml, idx, parsedData, flatData>>
    /\ UNCHANGED exporterVars

\* the call builds parsedData and runs to the await of its first entry, or
\* to the catch block when that entry throws
ParseXMLBegin(c) ==
    /\ pc[c] = "start"
    /\ ThrownBeforeEntries(xml[c]) = Null
    /\ Len(xml[c].entry) > 0
    /\ LET outcome == EntryOutcome(xml[c].entry[1], NewParsedData(xml[c]))
       IN  IF outcome.t = "throw"
           THEN /\ result' = [result EXCEPT ![c] = ParseFailure(outcome.message)]
                /\ pc' = [pc EXCEPT ![c] = "failed"]
                /\ UNCHANGED <<idx, parsedData>>
           ELSE /\ parsedData' = [parsedData EXCEPT ![c] = outcome.pd]
                /\ idx' = [idx EXCEPT ![c] = 1]
                /\ pc' = [pc EXCEPT ![c] = "await"]
                /\ UNCHANGED result
    /\ UNCHANGED <<xml, flatData>>
    /\ UNCHANGED exporterVars

\* a feed with no entry: the loop body never runs and the call returns at once
ParseXMLEmpty(c) ==
    /\ pc[c] = "start"
    /\ ThrownBeforeEntries(xml[c]) = Null
    /\ Len(xml[c].entry) = 0
    /\ parsedData' = [parsedData EXCEPT ![c] = BuildRelationships(NewParsedData(xml[c]))]
    /\ result' = [result EXCEPT
                    ![c] = ParseSuccess(BuildRelationships(NewParsedData(xml[c])))]
    /\ pc' = [pc EXCEPT ![c] = "done"]
    /\ UNCHANGED <<xml, idx, flatData>>
    /\ UNCHANGED exporterVars

\* the call resumes from an await and parses the next entry, or reaches the
\* catch block when that entry throws
ParseXMLNextEntry(c) ==
    /\ pc[c] = "await"
    /\ idx[c] < Len(xml[c].entry)
    /\ LET outcome == EntryOutcome(xml[c].entry[idx[c] + 1], parsedData[c])
       IN  IF outcome.t = "throw"
           THEN /\ result' = [result EXCEPT ![c] = ParseFailure(outcome.message)]
                /\ pc' = [pc EXCEPT ![c] = "failed"]
                /\ UNCHANGED <<idx, parsedData>>
           ELSE /\ parsedData' = [parsedData EXCEPT ![c] = outcome.pd]
                /\ idx' = [idx EXCEPT ![c] = idx[c] + 1]
                /\ UNCHANGED <<pc, result>>
    /\ UNCHANGED <<xml, flatData>>
    /\ UNCHANGED exporterVars

\* the call resumes from its last await, builds the relationships and returns
ParseXMLReturn(c) ==
    /\ pc[c] = "await"
    /\ idx[c] = Len(xml[c].entry)
    /\ parsedData' = [parsedData EXCEPT ![c] = BuildRelationships(parsedData[c])]
    /\ result' = [result EXCEPT ![c] = ParseSuccess(BuildRelationships(parsedData[c]))]
    /\ pc' = [pc EXCEPT ![c] = "done"]
    /\ UNCHANGED <<xml, idx>>
    /\ UNCHANGED flatData
    /\ UNCHANGED exporterVars

\* the caller passes the returned document to toFlatData and the rows to
\* generateSummaryStats, as processFile does
Flatten(c) ==
    /\ pc[c] = "done"
    /\ flatData' = [flatData EXCEPT ![c] = ToFlatData(result[c].document)]
    /\ summary' = [summary EXCEPT
                        ![c] = GenerateSummaryStats(ToFlatData(result[c].document))]
    /\ pc' = [pc EXCEPT ![c] = "flat"]
    /\ UNCHANGED <<xml, idx, parsedData, result>>
    /\ UNCHANGED <<exportCall, exported, tableInput, encoded, app>>

\* the clock of the export, in seconds since the epoch
ExportTime == 1609462800

\* the calls of exportGreenButtonData: the options handleExport gives, with a
\* download that works or that throws, and two other choices of options
ExportCalls ==
    {[options |-> Options(TRUE, FALSE), downloadError |-> Null, now |-> ExportTime],
     [options |-> Options(TRUE, FALSE),
      downloadError |-> Str("URL.createObjectURL is not a function"), now |-> ExportTime],
     [options |-> Options(FALSE, TRUE), downloadError |-> Null, now |-> ExportTime],
     [options |-> Options(FALSE, FALSE),
      downloadError |-> Str("URL.createObjectURL is not a function"), now |-> ExportTime]}

\* the export is called with the returned document, as handleExport does
\* with this.currentData
Export(c) ==
    /\ pc[c] = "flat"
    /\ exported[c] = Null
    /\ \E call \in ExportCalls :
            /\ exportCall' = [exportCall EXCEPT ![c] = call]
            /\ exported' = [exported EXCEPT ![c] =
                    ExportGreenButtonData(result[c].document, call.options,
                                          call.downloadError, call.now)]
    /\ UNCHANGED <<xml, pc, idx, parsedData, result, flatData, tableInput, encoded,
                   summary, app>>

\* no call of convertToCSV, validateData or generatePreview has been made
NotEncoded == [csv |-> Null, validation |-> Null, preview |-> Null]

\* one call, on any document of the families; the other calls never start
Init ==
    /\ \E doc \in Documents : xml = [c \in Calls |-> IF c = 1 THEN doc ELSE Null]
    /\ pc = [c \in Calls |-> IF c = 1 THEN "start" ELSE "idle"]
    /\ idx = [c \in Calls |-> 0]
    /\ parsedData = [c \in Calls |-> Null]
    /\ result = [c \in Calls |-> Null]
    /\ flatData = [c \in Calls |-> <<>>]
    /\ exportCall = [c \in Calls |-> Null]
    /\ exported = [c \in Calls |-> Null]
    /\ summary = [c \in Calls |-> Null]
    /\ app = Null
    /\ tableInput = Null
    /\ encoded = NotEncoded

Next ==
    \E c \in Calls :
        \/ ParseXMLThrow(c)
        \/ ParseXMLBegin(c)
        \/ ParseXMLEmpty(c)
        \/ ParseXMLNextEntry(c)
        \/ ParseXMLReturn(c)
        \/ Flatten(c)
        \/ Export(c)

Spec == Init /\ [][Next]_vars

-----------------------------------------------------------------------------
(* Several calls of parseXML under way at once, as in                        *)
(* Promise.all(texts.map(text => parser.parseXML(text))): every call starts, *)
(* and the calls resume from their awaits in any order                       *)

\* the documents of the concurrent calls: two feeds with entries of their
\* own, a feed without entries, a feed with an entry that throws and a text
\* that is not XML
ConcurrentDocuments ==
    {Document(<<U1, M1, B1, R1>>),
     Document(<<R2, U2, M2, B2>>),
     Document(<<>>),
     Document(<<U1, M1, X1, B1>>),
     [parserError |-> Str("unclosed tag"), feed |-> Null, entry |-> <<>>]}

InitConcurrent ==
    /\ xml \in [Calls -> ConcurrentDocuments]
    /\ pc = [c \in Calls |-> "start"]
    /\ idx = [c \in Calls |-> 0]
    /\ parsedData = [c \in Calls |-> Null]
    /\ result = [c \in Calls |-> Null]
    /\ flatData = [c \in Calls |-> <<>>]
    /\ exportCall = [c \in Calls |-> Null]
    /\ exported = [c \in Calls |-> Null]
    /\ summary = [c \in Calls |-> Null]
    /\ app = Null
    /\ tableInput = Null
    /\ encoded = NotEncoded

NextConcurrent ==
    \E c \in Calls :
        \/ ParseXMLThrow(c)
        \/ ParseXMLBegin(c)
        \/ ParseXMLEmpty(c)
        \/ ParseXMLNextEntry(c)
        \/ ParseXMLReturn(c)
        \/ Flatten(c)

SpecConcurrent == InitConcurrent /\ [][NextConcurrent]_vars

-----------------------------------------------------------------------------
(* The CSVExporter called directly: convertToCSV and validateData on a       *)
(* table of the families below                                               *)

\* the characters of the field texts
FieldAlphabet == {"a", ",", "\"", "\r", "\n", " ", "\t"}

\* longest field text of the field family, in characters
MaxFieldLen == 3

\* the texts over the alphabet that are at most n long
RECURSIVE TextsUpTo(_)
TextsUpTo(n) ==
    IF n = 0 THEN {""}
    ELSE TextsUpTo(n - 1)
         \cup {t \o ch : t \in {x \in TextsUpTo(n - 1) : Len(x) = n - 1},
                          ch \in FieldAlphabet}

FieldTexts == TextsUpTo(MaxFieldLen) \cup {"a,b\"c", " a b ", "\"\"", "say \"a\", then b"}

\* the field family: one row of two columns, the text being the key and the
\* value of the first, so that it is a header cell and a data cell
FieldTable(text) ==
    [data |-> Array(<<Object(<<text, "n">>, (text :> Str(text)) @@ ("n" :> IntV(7)))>>),
     headers |-> Null]

FieldTables == {FieldTable(text) : text \in FieldTexts}

\* rows of the shape family: objects of zero to three keys, and rows that are no objects
ShapeRows ==
    {Object(<<>>, <<>>),
     Object(<<"a">>, [a |-> IntV(1)]),
     Object(<<"a", "b">>, [a |-> Str(""), b |-> Null]),
     Object(<<"b", "a">>, [a |-> Str(" "), b |-> Str("x,y")]),
     Object(<<"a", "b", "c">>, [a |-> Str("q\"r"), b |-> NaN, c |-> Undefined]),
     Null, Undefined, IntV(5)}

\* longest table of the shape family, in rows
MaxRows == 2

\* the sequences of shape rows that are at most n long
RECURSIVE RowSeqs(_)
RowSeqs(n) ==
    IF n = 0 THEN {<<>>}
    ELSE RowSeqs(n - 1)
         \cup {Append(rows, row) : rows \in {x \in RowSeqs(n - 1) : Len(x) = n - 1},
                                   row \in ShapeRows}

\* the headers argument: left out, or an array of names
HeaderInputs ==
    {Null, Undefined, Array(<<>>), Array(<<Str("a")>>), Array(<<Str("b"), Str("a, b")>>)}

\* data that is no array
NoTables == {Null, Undefined, IntV(5), Object(<<"a">>, [a |-> IntV(1)])}

\* the shape family: tables that differ in their rows, and data that is no table
ShapeTables ==
    {[data |-> data, headers |-> headers] :
        data \in NoTables \cup {Array(rows) : rows \in RowSeqs(MaxRows)}
                 \cup {Array(<<Object(<<"a", "b">>, [a |-> Str("x"), b |-> IntV(2)]),
                               Object(<<"a">>, [a |-> Str("y")]),
                               Null,
                               Object(<<"a", "b", "c">>,
                                      [a |-> Str(" "), b |-> Null, c |-> IntV(3)]),
                               Object(<<"b", "a">>, [a |-> Str("z"), b |-> IntV(4)])>>)},
        headers \in HeaderInputs}

\* the quality family: one column of nulls, then of blank texts, then of texts
QualityTable(nulls, blanks, total) ==
    [data |-> Array([i \in 1..total |->
                Object(<<"a">>,
                       [a |-> IF i <= nulls THEN Null
                              ELSE IF i <= nulls + blanks
                                   THEN (IF i % 2 = 0 THEN Str("") ELSE Str(" \t"))
                              ELSE Str("x")])]),
     headers |-> Null]

\* tables of 9 to 11 values, of which up to 2 are null and up to 2 are blank
QualityTables ==
    {QualityTable(nulls, blanks, total) : nulls \in 0..2, blanks \in 0..2, total \in 9..11}

\* longest table of the preview family, in rows
MaxPreviewRows == 11

\* row i of a preview table: the rows differ, and so does the order of their keys
PreviewRow(i) ==
    Object(IF i % 2 = 1 THEN <<"n", "a">> ELSE <<"a", "n">>, [n |-> IntV(i), a |-> Str("x")])

\* the preview family: no data, or tables of numbered rows, with the row
\* limit left out or given
PreviewInputs ==
    {[data |-> data, headers |-> Null, maxRows |-> maxRows] :
        data \in {Null, Undefined, Array(<<Null>>)}
                 \cup {Array([i \in 1..n |-> PreviewRow(i)]) : n \in 0..MaxPreviewRows},
        maxRows \in {Undefined, IntV(0), IntV(1), IntV(2), IntV(10), IntV(11)}}

EncoderInputs == FieldTables \cup ShapeTables \cup QualityTables \cup PreviewInputs

\* convertToCSV(data, headers) on the table
ConvertToCSVCall ==
    /\ tableInput # Null
    /\ encoded.csv = Null
    /\ encoded' = [encoded EXCEPT !.csv = ConvertToCSV(tableInput.data, tableInput.headers)]
    /\ UNCHANGED <<parserVars, exportCall, exported, tableInput, summary, app>>

\* validateData(data) on the table
ValidateDataCall ==
    /\ tableInput # Null
    /\ encoded.validation = Null
    /\ encoded' = [encoded EXCEPT !.validation = ValidateData(tableInput.data)]
    /\ UNCHANGED <<parserVars, exportCall, exported, tableInput, summary, app>>

\* generatePreview(data, maxRows) on a table that comes with a row limit
GeneratePreviewCall ==
    /\ tableInput # Null
    /\ "maxRows" \in DOMAIN tableInput
    /\ encoded.preview = Null
    /\ encoded' = [encoded EXCEPT
                        !.preview = GeneratePreview(tableInput.data, tableInput.maxRows)]
    /\ UNCHANGED <<parserVars, exportCall, exported, tableInput, summary, app>>

\* the exporter is handed a table; no parse is under way
InitEncoder ==
    /\ tableInput \in EncoderInputs
    /\ encoded = NotEncoded
    /\ xml = [c \in Calls |-> Null]
    /\ pc = [c \in Calls |-> "idle"]
    /\ idx = [c \in Calls |-> 0]
    /\ parsedData = [c \in Calls |-> Null]
    /\ result = [c \in Calls |-> Null]
    /\ flatData = [c \in Calls |-> <<>>]
    /\ exportCall = [c \in Calls |-> Null]
    /\ exported = [c \in Calls |-> Null]
    /\ summary = [c \in Calls |-> Null]
    /\ app = Null

NextEncoder == ConvertToCSVCall \/ ValidateDataCall \/ GeneratePreviewCall

SpecEncoder == InitEncoder /\ [][NextEncoder]_vars

-----------------------------------------------------------------------------
(* GreenButtonApp (src/unnamed/part_000).  The page has three sections that  *)
(* are displayed or not, a file info line, a progress bar, an error message  *)
(* and the elements of the results.  processFile is suspended while the file *)
(* is read; the parse that follows runs without any other handler in         *)
(* between, since its awaits wait for nothing outside the call.  showResults *)
(* runs from a timer, 500 ms after processFile has finished.  The label of   *)
(* the export button and the size of the file in the file info line, which  *)
(* touch neither the data nor the sections, are left out, and the elements  *)
(* the code looks up by id are taken to be in the page.                     *)

UpperCase == "ABCDEFGHIJKLMNOPQRSTUVWXYZ"

LowerCase == "abcdefghijklmnopqrstuvwxyz"

\* the letter in the other case, by its place in the alphabet
OtherCase(ch, from, to) ==
    IF \E i \in 1..Len(from) : CharAt(from, i) = ch
    THEN CharAt(to, CHOOSE i \in 1..Len(from) : CharAt(from, i) = ch)
    ELSE ch

\* String.prototype.toLowerCase, for the letters A to Z
RECURSIVE ToLowerCase(_)
ToLowerCase(s) ==
    IF Len(s) = 0 THEN ""
    ELSE OtherCase(CharAt(s, 1), UpperCase, LowerCase) \o ToLowerCase(SubSeq(s, 2, Len(s)))

\* header.replace(/_/g, ' ').replace(/\b\w/g, l => l.toUpperCase()), for
\* headers of letters and underscores
RECURSIVE FormatHeaderName(_)
FormatHeaderName(header) ==
    IF Len(header) = 0 THEN ""
    ELSE LET front == SubSeq(header, 1, Len(header) - 1)
             last == CharAt(header, Len(header))
         IN  FormatHeaderName(front)
             \o (IF last = "_" THEN " "
                 ELSE IF Len(front) = 0 \/ CharAt(front, Len(front)) = "_"
                      THEN OtherCase(last, LowerCase, UpperCase)
                 ELSE last)

FormatCellValue(value) ==
    IF IsNullish(value) THEN ""
    ELSE IF value.t = "str" /\ Len(value.s) > 50 THEN SubSeq(value.s, 1, 50) \o "..."
    ELSE String(value)

TruncateText(text, maxLength) ==
    IF ~Truthy(text) THEN Str("N/A")
    ELSE IF Len(text.s) <= maxLength THEN text
    ELSE Str(SubSeq(text.s, 1, maxLength) \o "...")

\* formatDateTime: the date in the locale of the browser; the model keeps
\* the text of the feed
FormatDateTime(dateString) == IF ~Truthy(dateString) THEN Str("N/A") ELSE dateString

\* updateElement: element.textContent = value || '0'
UpdateElement(value) == IF Truthy(value) THEN String(value) ELSE "0"

\* a feed with an id of its own
FeedOf(id, title, entries) ==
    [parserError |-> Null,
     feed |-> [id |-> Str(id), title |-> title, updated |-> Str("2021-02-01T00:00:00Z")],
     entry |-> entries]

\* an interval block whose reading starts beyond the range of Date
B9 == Entry("b9", <<>>, IntervalBlockContent(
        <<ReadingElement(TimePeriodElement(Str("10000000000000"), Str("900")),
                         Str("5"), Null)>>))

\* the files the user selects or drops: the name, whether FileReader can read
\* the file, and the document DOMParser builds from its text.  Two feeds with
\* rows, a feed without rows, a feed toFlatData throws on, a text that is not
\* XML, a file that cannot be read and a file of another type
AppFiles ==
    {[name |-> "a.xml", readable |-> TRUE,
      xml |-> FeedOf("urn:feed:a", Str("Feed A"), <<U1, M1, B1, R1>>)],
     [name |-> "B.XML", readable |-> TRUE,
      xml |-> FeedOf("urn:feed:b", Null, <<R2, U2, M2, B2>>)],
     [name |-> "empty.xml", readable |-> TRUE,
      xml |-> FeedOf("urn:feed:c", Str("Feed C"), <<U3, M3>>)],
     [name |-> "late.xml", readable |-> TRUE,
      xml |-> FeedOf("urn:feed:d", Str("Feed D"), <<U1, M1, B9>>)],
     [name |-> "broken.xml", readable |-> TRUE,
      xml |-> [parserError |-> Str("unclosed tag"), feed |-> Null, entry |-> <<>>]],
     [name |-> "gone.xml", readable |-> FALSE, xml |-> Null],
     [name |-> "notes.txt", readable |-> TRUE, xml |-> Null]}

\* processFile calls the model follows
MaxProcessCalls == 2

\* style.display of the three sections after hideAllSections
AllHidden == [processing |-> FALSE, results |-> FALSE, error |-> FALSE]

\* the elements of the results section as the page is loaded
NoView ==
    [feedId |-> Null, feedTitle |-> Null, feedUpdated |-> Null, totalEntries |-> Null,
     usagePointsCount |-> Null, meterReadingsCount |-> Null, intervalsCount |-> Null,
     dateRange |-> Null, previewTable |-> Null]

\* a hideAllSections that hides nothing
KeepSections(a) == a

HideAllSections(a) == [a EXCEPT !.display = AllHidden]

ShowError(a, message) ==
    [HideAllSections(a) EXCEPT !.display.error = TRUE, !.errorMessage = Str(message)]

ShowProcessingSection(a) == [HideAllSections(a) EXCEPT !.display.processing = TRUE]

\* updatePreviewTable: the table is left as it is for a preview without headers
UpdatePreviewTable(previewTable, preview) ==
    IF Len(preview.headers) = 0 THEN previewTable
    ELSE [head |-> [h \in 1..Len(preview.headers) |-> FormatHeaderName(preview.headers[h])],
          body |-> [i \in 1..Len(preview.rows) |->
                      [h \in 1..Len(preview.headers) |->
                          FormatCellValue(Get(preview.rows[i], preview.headers[h]))]],
          notice |-> IF preview.isPreview
                     THEN Str("... and "
                              \o NatToStr(preview.totalRows - Len(preview.rows))
                              \o " more rows")
                     ELSE Null]

\* showResults(stats): the metadata and the preview are those of the
\* application's fields at the time of the call, the statistics are the
\* argument; the dates of the range are kept as ISO texts (the page shows
\* them in the locale of the browser)
ShowResults(a, stats) ==
    LET metadata == a.currentData.metadata
        preview == GeneratePreview(a.currentFlatData, IntV(10)).value
    IN  [HideAllSections(a) EXCEPT
            !.display.results = TRUE,
            !.view =
                [feedId |-> IF a.currentData # Null
                            THEN Str(UpdateElement(TruncateText(metadata.feedId, 50)))
                            ELSE a.view.feedId,
                 feedTitle |-> IF a.currentData # Null
                               THEN Str(UpdateElement(OrElse(metadata.feedTitle, Str("N/A"))))
                               ELSE a.view.feedTitle,
                 feedUpdated |-> IF a.currentData # Null
                                 THEN Str(UpdateElement(FormatDateTime(metadata.updated)))
                                 ELSE a.view.feedUpdated,
                 totalEntries |-> IF a.currentData # Null
                                  THEN Str(UpdateElement(IntV(metadata.totalEntries)))
                                  ELSE a.view.totalEntries,
                 usagePointsCount |-> Str(UpdateElement(IntV(stats.usagePoints))),
                 meterReadingsCount |-> Str(UpdateElement(IntV(stats.meterReadings))),
                 intervalsCount |-> Str(UpdateElement(IntV(stats.totalIntervals))),
                 dateRange |-> IF stats.dateRange # Null
                               THEN Str(stats.dateRange.min.s \o " - " \o stats.dateRange.max.s)
                               ELSE Str("N/A"),
                 previewTable |-> UpdatePreviewTable(a.view.previewTable, preview)]]

\* the sequence without its element i
RemoveAt(seq, i) == SubSeq(seq, 1, i - 1) \o SubSeq(seq, i + 1, Len(seq))

\* the options handleExport gives: the file name carries the time of the export
ExportOptions(now) ==
    [filename |-> "green_button_data_"
                  \o SubSeq(ToISOString(now), 1, 13) \o "-" \o SubSeq(ToISOString(now), 15, 16)
                  \o "-" \o SubSeq(ToISOString(now), 18, 19) \o ".csv",
     downloadFile |-> TRUE, includeMetadata |-> FALSE]

\* processFile(file) up to its first await: a file selected or dropped
ProcessFile(file) ==
    /\ app.started < MaxProcessCalls
    /\ app' =
          IF ~EndsWith(ToLowerCase(file.name), ".xml")
          THEN [ShowError(app, "Please select an XML file") EXCEPT !.started = @ + 1]
          ELSE [ShowProcessingSection(app) EXCEPT
                    !.fileInfo = Str("File: " \o file.name),
                    !.progress = 10,
                    !.reads = Append(@, [file |-> file, stale |-> FALSE]),
                    !.started = @ + 1]
    /\ UNCHANGED <<parserVars, exportCall, exported, tableInput, encoded, summary>>

\* processFile from the end of the read to its end: the read fails, or the
\* text is parsed, flattened and summarized and the results timer is set;
\* an error at any step goes to showError
ProcessFileResume(i) ==
    /\ i \in 1..Len(app.reads)
    /\ LET file == app.reads[i].file
           resumed == [app EXCEPT !.reads = RemoveAt(@, i)]
           parsed == ParseXML(file.xml)
       IN  app' =
             IF ~file.readable THEN ShowError(resumed, "Failed to read file")
             ELSE IF parsed.t = "error"
                  THEN ShowError([resumed EXCEPT !.progress = 30], parsed.message)
             ELSE IF ToFlatDataThrows(parsed.document)
                  THEN ShowError([resumed EXCEPT !.progress = 60,
                                                 !.currentData = parsed.document],
                                 "Invalid time value")
             ELSE [resumed EXCEPT
                      !.progress = 100,
                      !.currentData = parsed.document,
                      !.currentFlatData = FlatDataArray(ToFlatData(parsed.document)),
                      !.timers = Append(@,
                          [stats |-> GenerateSummaryStats(ToFlatData(parsed.document)),
                           stale |-> app.reads[i].stale])]
    /\ UNCHANGED <<parserVars, exportCall, exported, tableInput, encoded, summary>>

\* the oldest results timer fires: showResults(stats) with the statistics of
\* the call that set it
ShowResultsTimer ==
    /\ Len(app.timers) > 0
    /\ app' = ShowResults([app EXCEPT !.timers = Tail(@)], Head(app.timers).stats)
    /\ UNCHANGED <<parserVars, exportCall, exported, tableInput, encoded, summary>>

\* handleExport: a click on the export button; the download works or throws
HandleExport ==
    /\ \E downloadError \in {Null, Str("URL.createObjectURL is not a function")} :
          app' =
            IF app.currentData = Null \/ app.currentFlatData = Null
            THEN ShowError(app, "No data available to export")
            ELSE IF ~ExportGreenButtonData(app.currentData, ExportOptions(ExportTime),
                                           downloadError, ExportTime).success
                 THEN ShowError(app, "Export failed: "
                        \o ExportGreenButtonData(app.currentData, ExportOptions(ExportTime),
                                                 downloadError, ExportTime).error)
            ELSE app
    /\ UNCHANGED <<parserVars, exportCall, exported, tableInput, encoded, summary>>

\* handleReset: a click on the reset button.  The calls under way and the
\* timers are not cancelled; the model marks them as older than the reset
HandleReset ==
    /\ app' = [HideAllSections(app) EXCEPT
                  !.currentData = Null,
                  !.currentFlatData = Null,
                  !.fileInfo = Null,
                  !.reads = [i \in 1..Len(@) |-> [@[i] EXCEPT !.stale = TRUE]],
                  !.timers = [i \in 1..Len(@) |-> [@[i] EXCEPT !.stale = TRUE]]]
    /\ UNCHANGED <<parserVars, exportCall, exported, tableInput, encoded, summary>>

\* the application after its constructor; which sections the page displays
\* before any handler has run is the page's choice (its markup and styles)
InitApp ==
    /\ \E display \in [{"processing", "results", "error"} -> BOOLEAN] :
          app = [currentData |-> Null, currentFlatData |-> Null,
                 display |-> display, fileInfo |-> Null, progress |-> 0,
                 errorMessage |-> Null, view |-> NoView,
                 reads |-> <<>>, timers |-> <<>>, started |-> 0]
    /\ xml = [c \in Calls |-> Null]
    /\ pc = [c \in Calls |-> "idle"]
    /\ idx = [c \in Calls |-> 0]
    /\ parsedData = [c \in Calls |-> Null]
    /\ result = [c \in Calls |-> Null]
    /\ flatData = [c \in Calls |-> <<>>]
    /\ exportCall = [c \in Calls |-> Null]
    /\ exported = [c \in Calls |-> Null]
    /\ summary = [c \in Calls |-> Null]
    /\ tableInput = Null
    /\ encoded = NotEncoded

NextApp ==
    \/ \E file \in AppFiles : ProcessFile(file)
    \/ \E i \in 1..MaxProcessCalls : ProcessFileResume(i)
    \/ ShowResultsTimer
    \/ HandleExport
    \/ HandleReset

SpecApp == InitApp /\ [][NextApp]_vars

-----------------------------------------------------------------------------
(* Vocabulary of the properties *)

Range(seq) == {seq[i] : i \in 1..Len(seq)}

\* position of x in a sequence without repetition (0 if absent)
PositionIn(seq, x) == IF x \in Range(seq) THEN CHOOSE i \in 1..Len(seq) : seq[i] = x ELSE 0

\* calls whose parseXML has returned a document
Returned == {c \in Calls : result[c].t = "ok"}

\* calls whose document has been flattened
Flattened == {c \in Calls : pc[c] = "flat"}

\* the entity carries a 'related' link whose URI contains the substring
HasRelatedLinkTo(entity, substring) ==
    /\ "related" \in DOMAIN entity.links
    /\ \E i \in 1..Len(entity.links["related"]) :
            Includes(entity.links["related"][i], substring)

\* ids of the entries of a feed that parseEntry files as the given resource type
EntryIdsOfType(doc, type, before) ==
    {Str(Trim(doc.entry[i].id.s)) : i \in {j \in 1..Len(doc.entry) :
        /\ doc.entry[j].content # Null
        /\ type \in DOMAIN doc.entry[j].content
        /\ \A other \in before : other \notin DOMAIN doc.entry[j].content}}

\* C1: after parse, a usage point with a 'related' link containing MeterReading
\* lists every meter reading of the feed, in the insertion order of the
\* collection; likewise a meter reading with an IntervalBlock link lists every
\* interval block, and one with a ReadingType link lists every reading type.
C1_AssociatesWithAll ==
    \A c \in Returned :
        LET d == result[c].document
            rel == d.relationships
        IN  /\ \A u \in DOMAIN d.usagePoints.val :
                  HasRelatedLinkTo(d.usagePoints.val[u], "MeterReading") =>
                      /\ GetOrEmpty(rel.usagePointToMeterReadings, u) = d.meterReadings.keys
                      /\ EntryIdsOfType(xml[c], "MeterReading", {"UsagePoint"})
                            \subseteq Range(GetOrEmpty(rel.usagePointToMeterReadings, u))
            /\ \A m \in DOMAIN d.meterReadings.val :
                  /\ HasRelatedLinkTo(d.meterReadings.val[m], "IntervalBlock") =>
                      /\ GetOrEmpty(rel.meterReadingToIntervalBlocks, m) = d.intervalBlocks.keys
                      /\ EntryIdsOfType(xml[c], "IntervalBlock", {"UsagePoint", "MeterReading"})
                            \subseteq Range(GetOrEmpty(rel.meterReadingToIntervalBlocks, m))
                  /\ HasRelatedLinkTo(d.meterReadings.val[m], "ReadingType") =>
                      /\ GetOrEmpty(rel.meterReadingToReadingTypes, m) = d.readingTypes.keys
                      /\ EntryIdsOfType(xml[c], "ReadingType",
                                        {"UsagePoint", "MeterReading", "IntervalBlock"})
                            \subseteq Range(GetOrEmpty(rel.meterReadingToReadingTypes, m))

\* a feed with two linked usage points and two meter readings: each usage point
\* lists both meter readings, and a meter reading lists two blocks and two types
C1_Witness ==
    \E c \in Returned :
        LET d == result[c].document
            rel == d.relationships
        IN  /\ \E u1, u2 \in DOMAIN rel.usagePointToMeterReadings.val :
                  /\ u1 # u2
                  /\ Len(rel.usagePointToMeterReadings.val[u1]) = 3
                  /\ Len(rel.usagePointToMeterReadings.val[u2]) = 3
            /\ \E m \in DOMAIN rel.meterReadingToIntervalBlocks.val :
                  /\ Len(rel.meterReadingToIntervalBlocks.val[m]) = 2
                  /\ MapHas(rel.meterReadingToReadingTypes, m)
                  /\ Len(rel.meterReadingToReadingTypes.val[m]) = 2

\* C8: after parse, a usage point or meter reading without a 'related' link
\* containing the matching substring has no key in the corresponding
\* relationship mapping (absent key, not an empty list).
C8_NoLinkNoKey ==
    \A c \in Returned :
        LET d == result[c].document
            rel == d.relationships
        IN  /\ \A u \in DOMAIN d.usagePoints.val :
                  ~HasRelatedLinkTo(d.usagePoints.val[u], "MeterReading") =>
                      ~MapHas(rel.usagePointToMeterReadings, u)
            /\ \A m \in DOMAIN d.meterReadings.val :
                  /\ ~HasRelatedLinkTo(d.meterReadings.val[m], "IntervalBlock") =>
                        ~MapHas(rel.meterReadingToIntervalBlocks, m)
                  /\ ~HasRelatedLinkTo(d.meterReadings.val[m], "ReadingType") =>
                        ~MapHas(rel.meterReadingToReadingTypes, m)

\* a feed where an unlinked usage point and an unlinked meter reading stand
\* beside linked ones, with meter readings, blocks and types to associate
C8_Witness ==
    \E c \in Returned :
        LET d == result[c].document
            rel == d.relationships
        IN  /\ \E u \in DOMAIN d.usagePoints.val :
                  ~HasRelatedLinkTo(d.usagePoints.val[u], "MeterReading")
            /\ \E m \in DOMAIN d.meterReadings.val :
                  /\ ~HasRelatedLinkTo(d.meterReadings.val[m], "IntervalBlock")
                  /\ ~HasRelatedLinkTo(d.meterReadings.val[m], "ReadingType")
            /\ Len(rel.usagePointToMeterReadings.keys) > 0
            /\ Len(rel.meterReadingToIntervalBlocks.keys) > 0
            /\ Len(rel.meterReadingToReadingTypes.keys) > 0
            /\ Len(d.intervalBlocks.keys) > 0

\* the raw fields of a row are those of the reading
RowIsOfReading(row, reading) ==
    /\ row.value = reading.value
    /\ row.cost = reading.cost
    /\ row.quality_flags = reading.qualityFlags
    /\ row.duration = (IF reading.timePeriod # Null THEN reading.timePeriod.duration ELSE Null)

\* the triples (usage point, related meter reading, related interval block) of
\* a document whose ids all exist in the collections
Triples(d) ==
    {<<u, m, b>> \in (DOMAIN d.usagePoints.val) \X (DOMAIN d.meterReadings.val)
                     \X (DOMAIN d.intervalBlocks.val) :
        /\ m \in Range(GetOrEmpty(d.relationships.usagePointToMeterReadings, u))
        /\ b \in Range(GetOrEmpty(d.relationships.meterReadingToIntervalBlocks, m))}

\* indices of the rows that carry the ids of a triple
RowsOfTriple(rows, tr) ==
    {i \in 1..Len(rows) : /\ rows[i].usage_point_id = tr[1]
                          /\ rows[i].meter_reading_id = tr[2]
                          /\ rows[i].interval_block_id = tr[3]}

RECURSIVE SumOver(_, _)
SumOver(F(_), S) ==
    IF S = {} THEN 0 ELSE LET x == CHOOSE y \in S : TRUE IN F(x) + SumOver(F, S \ {x})

\* C2: flatten emits exactly one row for every (usage point, related meter
\* reading, related interval block, interval reading of the block) and no
\* other row: an entity with nothing related contributes no row and no row is
\* padded with nulls.
C2_OneRowPerReading ==
    \A c \in Flattened :
        LET d == result[c].document
            rows == flatData[c]
            ReadingsOf(tr) == d.intervalBlocks.val[tr[3]].intervalReadings
        IN  /\ \A tr \in Triples(d) :
                  /\ Cardinality(RowsOfTriple(rows, tr)) = Len(ReadingsOf(tr))
                  /\ \A k \in 1..Len(ReadingsOf(tr)) :
                        Cardinality({i \in RowsOfTriple(rows, tr) :
                                        RowIsOfReading(rows[i], ReadingsOf(tr)[k])}) = 1
            /\ \A i \in 1..Len(rows) :
                  <<rows[i].usage_point_id, rows[i].meter_reading_id,
                    rows[i].interval_block_id>> \in Triples(d)
            /\ Len(rows) = SumOver(LAMBDA tr : Len(ReadingsOf(tr)), Triples(d))

\* a flattened feed with rows, where a usage point, a meter reading and an
\* interval block are each left without related entities
C2_Witness ==
    \E c \in Flattened :
        LET d == result[c].document
        IN  /\ Len(flatData[c]) >= 4
            /\ \E u \in DOMAIN d.usagePoints.val :
                  ~MapHas(d.relationships.usagePointToMeterReadings, u)
            /\ \E m \in DOMAIN d.meterReadings.val :
                  ~MapHas(d.relationships.meterReadingToIntervalBlocks, m)
            /\ Cardinality(Triples(d)) >= 2

\* a triple comes before another in the order of usage points, then of the
\* related meter readings, then of the related interval blocks
TripleBefore(d, a, b) ==
    LET ua == PositionIn(d.usagePoints.keys, a[1])
        ub == PositionIn(d.usagePoints.keys, b[1])
        related == GetOrEmpty(d.relationships.usagePointToMeterReadings, a[1])
        ma == PositionIn(related, a[2])
        mb == PositionIn(related, b[2])
        blocks == GetOrEmpty(d.relationships.meterReadingToIntervalBlocks, a[2])
        ba == PositionIn(blocks, a[3])
        bb == PositionIn(blocks, b[3])
    IN  \/ ua < ub
        \/ ua = ub /\ ma < mb
        \/ ua = ub /\ ma = mb /\ ba < bb

RowTriple(row) == <<row.usage_point_id, row.meter_reading_id, row.interval_block_id>>

\* C3: the rows of flatten are ordered by usage point (insertion order), then
\* by the order of the related meter readings, then of the related interval
\* blocks, then of the interval readings inside the block.
C3_RowOrder ==
    \A c \in Flattened :
        LET d == result[c].document
            rows == flatData[c]
        IN  \A i, j \in 1..Len(rows) :
                i < j =>
                    \/ TripleBefore(d, RowTriple(rows[i]), RowTriple(rows[j]))
                    \/ /\ RowTriple(rows[i]) = RowTriple(rows[j])
                       /\ \E k, l \in 1..Len(d.intervalBlocks.val[rows[i].interval_block_id]
                                                .intervalReadings) :
                            LET readings == d.intervalBlocks.val[rows[i].interval_block_id]
                                                .intervalReadings
                            IN  /\ k < l
                                /\ RowIsOfReading(rows[i], readings[k])
                                /\ RowIsOfReading(rows[j], readings[l])

\* a flattened feed with two usage points, two meter readings and two blocks,
\* one of them with two readings: every level of the order has two members
C3_Witness ==
    \E c \in Flattened :
        LET rows == flatData[c]
        IN  /\ Cardinality({rows[i].usage_point_id : i \in 1..Len(rows)}) = 2
            /\ Cardinality({rows[i].meter_reading_id : i \in 1..Len(rows)}) = 2
            /\ Cardinality({rows[i].interval_block_id : i \in 1..Len(rows)}) = 2
            /\ Len(rows) = 12

\* the document with every list of related reading types cut to its first id
FirstReadingTypesOnly(d) ==
    [d EXCEPT !.relationships.meterReadingToReadingTypes.val =
        [m \in DOMAIN @ |-> SubSeq(@[m], 1, 1)]]

\* C7: flatten uses only the first id of meterReadingToReadingTypes[m]:
\* reading_type_id, commodity, uom, power_multiplier, interval_length and the
\* multiplier of the derived fields of every row of m come from that reading
\* type, and further related reading types change nothing in the output.
C7_FirstReadingTypeOnly ==
    \A c \in Flattened :
        LET d == result[c].document
            rows == flatData[c]
        IN  /\ rows = ToFlatData(FirstReadingTypesOnly(d))
            /\ \A i \in 1..Len(rows) :
                  LET related == GetOrEmpty(d.relationships.meterReadingToReadingTypes,
                                            rows[i].meter_reading_id)
                      first == d.readingTypes.val[related[1]]
                  IN  IF Len(related) = 0
                      THEN /\ rows[i].reading_type_id = Null
                           /\ rows[i].commodity = Null
                           /\ rows[i].uom = Null
                           /\ rows[i].power_multiplier = Null
                           /\ rows[i].interval_length = Null
                      ELSE /\ rows[i].reading_type_id = related[1]
                           /\ rows[i].commodity = (IF first.commodity = Null THEN Null
                                                   ELSE first.commodity.description)
                           /\ rows[i].uom = (IF first.uom = Null THEN Null
                                             ELSE first.uom.description)
                           /\ rows[i].power_multiplier = first.powerOfTenMultiplier
                           /\ rows[i].interval_length = first.intervalLength
                           /\ IsInt(rows[i].value) /\ rows[i].value.v # 0 =>
                                rows[i].calculated_value =
                                    TimesPow10(rows[i].value, first.powerOfTenMultiplier)

\* rows of a meter reading with two related reading types that differ in
\* commodity, unit, multiplier and interval length
C7_Witness ==
    \E c \in Flattened :
        LET d == result[c].document
            rows == flatData[c]
        IN  \E i \in 1..Len(rows) :
                LET related == GetOrEmpty(d.relationships.meterReadingToReadingTypes,
                                          rows[i].meter_reading_id)
                IN  /\ Len(related) = 2
                    /\ d.readingTypes.val[related[1]].commodity
                            # d.readingTypes.val[related[2]].commodity
                    /\ d.readingTypes.val[related[1]].powerOfTenMultiplier
                            # d.readingTypes.val[related[2]].powerOfTenMultiplier
                    /\ rows[i].reading_type_id = Str("r2")
                    /\ rows[i].calculated_value # Null

\* an entry with content and a link whose relation is an inherited property
EntryFails(entry) ==
    /\ entry.content # Null
    /\ \E i \in 1..Len(entry.link) :
            entry.link[i].rel.s \in InheritedProperties /\ entry.link[i].href.s # ""

Malformed(doc) == doc.parserError # Null

WithoutFeed(doc) == doc.parserError = Null /\ doc.feed = Null

WithFailingEntry(doc) ==
    /\ ~Malformed(doc) /\ ~WithoutFeed(doc)
    /\ \E i \in 1..Len(doc.entry) : EntryFails(doc.entry[i])

\* the message of the error thrown inside the try block for a document
CauseOf(doc) ==
    IF Malformed(doc) THEN "XML parsing error: " \o doc.parserError.s
    ELSE IF WithoutFeed(doc) THEN "Invalid Green Button file: No feed element found"
    ELSE "links[rel].push is not a function"

\* C10: when parse fails (malformed XML, no feed element, or an error while an
\* entry is processed) the caller gets one error whose message carries the
\* message of the cause, and no document, not even a partial one; a document
\* is returned only by a parse that completed.
C10_FailureIsOneError ==
    \A c \in Calls :
        /\ pc[c] = "failed" =>
              /\ result[c].t = "error"
              /\ DOMAIN result[c] = {"t", "message"}
              /\ Includes(result[c].message, CauseOf(xml[c]))
              /\ result[c].message = "Failed to parse Green Button XML: " \o CauseOf(xml[c])
        /\ pc[c] # "idle" /\ (Malformed(xml[c]) \/ WithoutFeed(xml[c])) =>
              pc[c] \in {"start", "failed"}
        /\ pc[c] # "idle" /\ WithFailingEntry(xml[c]) =>
              pc[c] \in {"start", "await", "failed"}
        /\ result[c].t = "ok" =>
              /\ pc[c] \in {"done", "flat"}
              /\ idx[c] = Len(xml[c].entry)
        /\ pc[c] \in {"start", "await"} => result[c] = Null

\* a call that failed on an entry after it had filed other entries
C10_Witness ==
    \E c \in Calls :
        /\ pc[c] = "failed"
        /\ WithFailingEntry(xml[c])
        /\ idx[c] = 2
        /\ Len(parsedData[c].usagePoints.keys) = 1
        /\ result[c].t = "error"

\* rows whose multiplier is an integer of the range the property speaks of
RowsWithMultiplier(rows) ==
    {i \in 1..Len(rows) : /\ IsInt(rows[i].power_multiplier)
                          /\ rows[i].power_multiplier.v \in (0 - 12)..12}

\* C4: in every row, calculated_value is value * 10^power_multiplier when the
\* value is present (0 included) and null when the value is null, for every
\* integer multiplier in -12..12.
C4_CalculatedValue ==
    \A c \in Flattened :
        \A i \in RowsWithMultiplier(flatData[c]) :
            LET row == flatData[c][i]
            IN  /\ row.value = Null => row.calculated_value = Null
                /\ IsInt(row.value) =>
                      row.calculated_value = Scaled(row.value.v, row.power_multiplier.v)

\* C5: in every row with a cost, calculated_cost is cost * 10^power_multiplier
\* divided by 100, in exactly two decimals (256347 with multiplier 0 gives
\* "2563.47"), for every present cost, 0 included.
C5_CalculatedCost ==
    \A c \in Flattened :
        \A i \in RowsWithMultiplier(flatData[c]) :
            LET row == flatData[c][i]
            IN  /\ IsInt(row.cost) =>
                      row.calculated_cost =
                          DivBy100ToFixed2(Scaled(row.cost.v, row.power_multiplier.v))
                /\ row.cost = IntV(256347) /\ row.power_multiplier = IntV(0) =>
                      row.calculated_cost = Str("2563.47")

\* the IntervalReading elements of the entry of a feed that holds block ibId
SourceReadings(doc, ibId) ==
    LET i == CHOOSE j \in 1..Len(doc.entry) :
                /\ Str(Trim(doc.entry[j].id.s)) = ibId
                /\ doc.entry[j].content # Null
                /\ "IntervalBlock" \in DOMAIN doc.entry[j].content
    IN  doc.entry[i].content.IntervalBlock.IntervalReading

\* the interval reading a row was made from: rows of one (usage point, meter
\* reading, block) follow the readings of the block
SourceReadingOfRow(doc, rows, i) ==
    SourceReadings(doc, rows[i].interval_block_id)
        [Cardinality({j \in RowsOfTriple(rows, RowTriple(rows[i])) : j <= i})]

\* the text of an element holds an integer
TextIsInteger(text) == text # Null /\ IsInt(ParseInt(Str(Trim(text.s))))

TextValue(text) == ParseInt(Str(Trim(text.s))).v

\* C6: in every row, end_time is produced exactly when the time period of the
\* reading holds both a start and a duration, and is then the timestamp of
\* start + duration (start 1609459200 and duration 900 give the timestamp of
\* 1609460100); otherwise end_time is null.
C6_EndTime ==
    \A c \in Flattened :
        \A i \in 1..Len(flatData[c]) :
            LET row == flatData[c][i]
                timePeriod == SourceReadingOfRow(xml[c], flatData[c], i).timePeriod
                bothPresent == /\ timePeriod # Null
                               /\ TextIsInteger(timePeriod.start)
                               /\ TextIsInteger(timePeriod.duration)
            IN  /\ row.end_time # Null <=> bothPresent
                /\ bothPresent =>
                      row.end_time = Str(ToISOString(TextValue(timePeriod.start)
                                                     + TextValue(timePeriod.duration)))

IsIntOrNull(x) == x = Null \/ IsInt(x)

PeriodIsDecoded(period) ==
    period = Null \/ (IsIntOrNull(period.start) /\ IsIntOrNull(period.duration))

\* C9: every integer-coded field decodes to an integer or to null (absent or
\* unparseable text), never to another value, in every entity of a document
\* that parse returned.
C9_IntegerOrNull ==
    \A c \in Returned :
        LET d == result[c].document
        IN  /\ \A u \in DOMAIN d.usagePoints.val :
                  d.usagePoints.val[u].serviceCategory # Null =>
                      IsIntOrNull(d.usagePoints.val[u].serviceCategory.kind)
            /\ \A r \in DOMAIN d.readingTypes.val :
                  LET rt == d.readingTypes.val[r]
                  IN  /\ \A f \in {"accumulationBehaviour", "currency", "dataQualifier",
                                   "flowDirection", "intervalLength", "kind", "phase",
                                   "powerOfTenMultiplier", "timeAttribute"} :
                            IsIntOrNull(rt[f])
                      /\ rt.commodity # Null => IsIntOrNull(rt.commodity.code)
                      /\ rt.uom # Null => IsIntOrNull(rt.uom.code)
            /\ \A b \in DOMAIN d.intervalBlocks.val :
                  LET ib == d.intervalBlocks.val[b]
                  IN  /\ PeriodIsDecoded(ib.interval)
                      /\ \A k \in 1..Len(ib.intervalReadings) :
                            /\ IsIntOrNull(ib.intervalReadings[k].value)
                            /\ IsIntOrNull(ib.intervalReadings[k].cost)
                            /\ PeriodIsDecoded(ib.intervalReadings[k].timePeriod)

-----------------------------------------------------------------------------
(* Classification of the entries *)

\* the resource types in the priority order of the classification
ResourceTypes ==
    <<"UsagePoint", "MeterReading", "IntervalBlock", "ReadingType",
      "LocalTimeParameters", "UsageSummary">>

\* the collection of the document that holds the entities of a resource type
CollectionOf(pd, type) ==
    CASE type = "UsagePoint" -> pd.usagePoints
      [] type = "MeterReading" -> pd.meterReadings
      [] type = "IntervalBlock" -> pd.intervalBlocks
      [] type = "ReadingType" -> pd.readingTypes
      [] type = "LocalTimeParameters" -> pd.localTimeParameters
      [] type = "UsageSummary" -> pd.usageSummaries

\* the content of the entry holds an element of the resource type
HoldsType(entry, type) ==
    /\ entry.content # Null
    /\ \/ type \in DOMAIN entry.content
       \/ type = "UsageSummary" /\ "ElectricPowerUsageSummary" \in DOMAIN entry.content

\* the resource types the content of the entry holds
TypesHeld(entry) == {k \in 1..Len(ResourceTypes) : HoldsType(entry, ResourceTypes[k])}

\* the entry is classified as the type: the first type, in priority order, it holds
ClassifiedAs(entry, type) ==
    \E k \in TypesHeld(entry) :
        /\ ResourceTypes[k] = type
        /\ \A j \in TypesHeld(entry) : k <= j

\* the sequence without the later occurrences of its repeated members
RECURSIVE Distinct(_)
Distinct(seq) ==
    IF Len(seq) = 0 THEN <<>>
    ELSE LET front == Distinct(SubSeq(seq, 1, Len(seq) - 1))
         IN  IF seq[Len(seq)] \in Range(front) THEN front
             ELSE Append(front, seq[Len(seq)])

\* ids of the first n entries of the feed that are classified as the type
IdsClassifiedAs(doc, n, type) ==
    LET classified == SelectSeq(SubSeq(doc.entry, 1, n), LAMBDA e : ClassifiedAs(e, type))
    IN  Distinct([i \in 1..Len(classified) |-> GetTextContent(classified[i], "id")])

\* calls that are past at least one entry and have not failed
Parsing == {c \in Calls : pc[c] \in {"await", "done", "flat"}}

\* C11: whenever a call has parsed its first n entries, each of the six
\* collections holds exactly the ids of the entries among them whose first
\* resource type, in the order UsagePoint, MeterReading, IntervalBlock,
\* ReadingType, LocalTimeParameters, UsageSummary, is the type of the
\* collection, in the order of the feed; an entry is in no collection of a
\* type it holds but is not classified as.
C11_FirstTypeOnly ==
    \A c \in Parsing :
        \A k \in 1..Len(ResourceTypes) :
            /\ CollectionOf(parsedData[c], ResourceTypes[k]).keys
                    = IdsClassifiedAs(xml[c], idx[c], ResourceTypes[k])
            /\ DOMAIN CollectionOf(parsedData[c], ResourceTypes[k]).val
                    = Range(IdsClassifiedAs(xml[c], idx[c], ResourceTypes[k]))

\* a parsed entry holds three resource types and its id is in the collection
\* of the first of them
C11_Witness ==
    \E c \in Parsing :
        \E i \in 1..idx[c] :
            /\ Cardinality(TypesHeld(xml[c].entry[i])) >= 3
            /\ ClassifiedAs(xml[c].entry[i], "MeterReading")
            /\ MapHas(parsedData[c].meterReadings, GetTextContent(xml[c].entry[i], "id"))
            /\ ~MapHas(parsedData[c].intervalBlocks, GetTextContent(xml[c].entry[i], "id"))

\* the entities the document holds, over the six collections
TotalEntities(pd) ==
    Len(pd.usagePoints.keys) + Len(pd.meterReadings.keys) + Len(pd.intervalBlocks.keys)
    + Len(pd.readingTypes.keys) + Len(pd.localTimeParameters.keys)
    + Len(pd.usageSummaries.keys)

\* the six collections of a document
Collections(pd) == [k \in 1..Len(ResourceTypes) |-> CollectionOf(pd, ResourceTypes[k])]

\* entries among the first n of the feed that have a content element
WithContent(doc, n) == {i \in 1..n : doc.entry[i].content # Null}

\* the step parses an entry without content: as first entry of the call, or as a later one
SkipsFirstEntry(c) ==
    /\ pc[c] = "start" /\ ThrownBeforeEntries(xml[c]) = Null
    /\ Len(xml[c].entry) > 0 /\ xml[c].entry[1].content = Null
    /\ pc'[c] # "start"

SkipsNextEntry(c) ==
    /\ pc[c] = "await" /\ idx[c] < Len(xml[c].entry)
    /\ xml[c].entry[idx[c] + 1].content = Null
    /\ <<pc[c], idx[c]>> # <<pc'[c], idx'[c]>>

\* C12: a step that parses an entry without content does not fail and leaves
\* the six collections as they were (empty, for the first entry of a feed);
\* totalEntries is the number of entry elements of the feed, with or without
\* content, and the entities of the six collections are never more than the
\* entries with content parsed so far.
C12_NoContentNoEntity ==
    /\ [](\A c \in Parsing :
            /\ parsedData[c].metadata.totalEntries = Len(xml[c].entry)
            /\ TotalEntities(parsedData[c]) <= Cardinality(WithContent(xml[c], idx[c]))
            /\ TotalEntities(parsedData[c]) <= parsedData[c].metadata.totalEntries)
    /\ [][\A c \in Calls :
            /\ SkipsFirstEntry(c) =>
                    /\ pc'[c] = "await" /\ idx'[c] = 1
                    /\ Collections(parsedData'[c]) = Collections(NewParsedData(xml[c]))
            /\ SkipsNextEntry(c) =>
                    /\ pc'[c] = "await" /\ idx'[c] = idx[c] + 1
                    /\ Collections(parsedData'[c]) = Collections(parsedData[c])]_vars

\* a returned document of a feed with entries without content: the entries
\* counted are more than the entities held
C12_Witness ==
    \E c \in Returned :
        /\ \E i \in 1..Len(xml[c].entry) : xml[c].entry[i].content = Null
        /\ \E i \in 1..Len(xml[c].entry) : xml[c].entry[i].content # Null
        /\ TotalEntities(result[c].document) >= 1
        /\ result[c].document.metadata.totalEntries > TotalEntities(result[c].document)

-----------------------------------------------------------------------------
(* Properties of the CSV text *)

\* a reader of CSV text after RFC 4180: fields are separated by commas and
\* records by LF or CRLF; a field that opens with a double quote runs to the
\* next double quote that is not doubled, and a doubled one stands for one.
\* ReadField reads one field from position i on: quoted says that the reader
\* is inside the quotes, field is the text read so far.  It gives the field,
\* the position after its separator and the separator met.
RECURSIVE ReadField(_, _, _, _)
ReadField(text, i, quoted, field) ==
    IF i > Len(text) THEN [field |-> field, next |-> i, sep |-> "end"]
    ELSE LET ch == CharAt(text, i)
             next == IF i < Len(text) THEN CharAt(text, i + 1) ELSE ""
         IN  IF quoted
             THEN IF ch = "\"" /\ next = "\""
                  THEN ReadField(text, i + 2, TRUE, field \o "\"")
                  ELSE IF ch = "\"" THEN ReadField(text, i + 1, FALSE, field)
                  ELSE ReadField(text, i + 1, TRUE, field \o ch)
             ELSE IF ch = "\"" /\ field = "" /\ (i = 1 \/ CharAt(text, i - 1) \in {",", "\n"})
                  THEN ReadField(text, i + 1, TRUE, field)
                  ELSE IF ch = "," THEN [field |-> field, next |-> i + 1, sep |-> ","]
                  ELSE IF ch = "\n" THEN [field |-> field, next |-> i + 1, sep |-> "\n"]
                  ELSE IF ch = "\r" /\ next = "\n"
                  THEN [field |-> field, next |-> i + 2, sep |-> "\n"]
                  ELSE ReadField(text, i + 1, FALSE, field \o ch)

\* the fields of one record from position i on, after the fields read so far
RECURSIVE ReadRecord(_, _, _)
ReadRecord(text, i, record) ==
    LET read == ReadField(text, i, FALSE, "")
    IN  IF read.sep = ","
        THEN ReadRecord(text, read.next, Append(record, read.field))
        ELSE [record |-> Append(record, read.field), next |-> read.next, sep |-> read.sep]

\* the records from position i on, after the records read so far
RECURSIVE ReadRecords(_, _, _)
ReadRecords(text, i, records) ==
    LET read == ReadRecord(text, i, <<>>)
    IN  IF read.sep = "\n"
        THEN ReadRecords(text, read.next, Append(records, read.record))
        ELSE Append(records, read.record)

\* the records of a CSV text, each the sequence of its fields
ReadCSV(text) == ReadRecords(text, 1, <<>>)

\* convertToCSV has been called on the table and has returned a text
Converted == tableInput # Null /\ encoded.csv # Null /\ encoded.csv.t = "return"

\* validateData has been called on the table
Validated == tableInput # Null /\ encoded.validation # Null

\* the column names convertToCSV used for the table
ColumnsOf(input) ==
    [h \in 1..Len(CsvHeaders(input.data, input.headers).items) |->
        CsvHeaders(input.data, input.headers).items[h].s]

\* what a cell stands for as a string: nothing for a null or absent value
TextOf(value) == IF IsNullish(value) THEN "" ELSE String(value)

\* the texts of the header cells and of the cells of each row, as given
CellTexts(input) ==
    <<ColumnsOf(input)>>
    \o [i \in 1..Len(input.data.items) |->
            [h \in 1..Len(ColumnsOf(input)) |->
                TextOf(Get(input.data.items[i], ColumnsOf(input)[h]))]]

\* the field holds a comma, a double quote, a carriage return or a newline,
\* or begins or ends with a white space character
MustBeQuoted(text) ==
    \/ \E i \in 1..Len(text) : CharAt(text, i) \in {",", "\"", "\r", "\n"}
    \/ Len(text) > 0 /\ CharAt(text, 1) \in {" ", "\t", "\n", "\r"}
    \/ Len(text) > 0 /\ CharAt(text, Len(text)) \in {" ", "\t", "\n", "\r"}

\* the text between double quotes, each double quote inside written twice
RECURSIVE InQuotes(_)
InQuotes(text) ==
    IF Len(text) = 0 THEN ""
    ELSE InQuotes(SubSeq(text, 1, Len(text) - 1))
         \o (IF CharAt(text, Len(text)) = "\"" THEN "\"\"" ELSE CharAt(text, Len(text)))

\* the field as the quoting rule writes it
Written(text) == IF MustBeQuoted(text) THEN "\"" \o InQuotes(text) \o "\"" ELSE text

\* C13: in the text convertToCSV returns, every header cell and every data
\* cell is written between double quotes, with its double quotes doubled,
\* if and only if it holds a comma, a double quote, a carriage return or a
\* newline or begins or ends with a white space character (space, tab,
\* carriage return or newline); every other cell is written as it is.
C13_QuotingRule ==
    Converted =>
        encoded.csv.value.s =
            Join([r \in 1..Len(CellTexts(tableInput)) |->
                    Join([h \in 1..Len(CellTexts(tableInput)[r]) |->
                            Written(CellTexts(tableInput)[r][h])], ",")], "\n")

\* C14: the text convertToCSV returns for a table of two columns or more,
\* read back as CSV, gives the header names and, row by row, the strings of
\* the cells exactly as they were given.
C14_RoundTrip ==
    Converted /\ Len(ColumnsOf(tableInput)) >= 2 =>
        ReadCSV(encoded.csv.value.s) = CellTexts(tableInput)

\* the field a,b"c has been written as "a,b""c", as header cell and as data cell
C14_Witness ==
    /\ Converted
    /\ tableInput = FieldTable("a,b\"c")
    /\ encoded.csv.value.s = "\"a,b\"\"c\",n\n\"a,b\"\"c\",7"
    /\ ReadCSV(encoded.csv.value.s)[2][1] = "a,b\"c"

\* the header list the rule gives: the one supplied, else the keys of the
\* first row, else, when the first row has no keys, the canonical 17 columns
HeaderRuleOf(input) ==
    IF ~IsNullish(input.headers)
    THEN [h \in 1..Len(input.headers.items) |-> input.headers.items[h].s]
    ELSE IF Len(ObjectKeys(input.data.items[1])) > 0 THEN ObjectKeys(input.data.items[1])
    ELSE <<"usage_point_id", "meter_reading_id", "interval_block_id", "reading_type_id",
           "service_category", "commodity", "uom", "power_multiplier", "start_time",
           "duration", "end_time", "value", "cost", "quality_flags", "interval_length",
           "calculated_value", "calculated_cost">>

\* a line without text reads as one empty field: it stands for no column too
Columns(fields) == IF fields = <<"">> THEN <<>> ELSE fields

\* C15: the first record of the text convertToCSV returns for rows that are
\* records is the supplied header list when one is given, else the keys of
\* the first row in their order, else, when the first row has no keys, the
\* canonical list of 17 columns.
C15_HeaderRule ==
    Converted /\ tableInput.data.items[1].t = "object" =>
        Columns(ReadCSV(encoded.csv.value.s)[1]) = Columns(HeaderRuleOf(tableInput))

\* C17: convertToCSV on null, on undefined or on an empty array throws the
\* error 'No data provided for CSV conversion' and returns no text, with or
\* without a header list.
C17_EmptyDataFails ==
    (/\ tableInput # Null /\ encoded.csv # Null
     /\ \/ IsNullish(tableInput.data)
        \/ tableInput.data.t = "array" /\ Len(tableInput.data.items) = 0)
    => /\ encoded.csv.t = "throw"
       /\ encoded.csv.name = "Error"
       /\ encoded.csv.message = "No data provided for CSV conversion"
       /\ "value" \notin DOMAIN encoded.csv

\* convertToCSV has thrown on an empty array that came with a header list
C17_Witness ==
    /\ tableInput # Null /\ encoded.csv # Null
    /\ tableInput.data = Array(<<>>)
    /\ tableInput.headers = Array(<<Str("b"), Str("a, b")>>)
    /\ encoded.csv.t = "throw"

\* the statistics of a report that counted nothing
EmptyStats == [totalRows |-> 0, totalColumns |-> 0, emptyValues |-> 0, nullValues |-> 0]

\* the data validateData is to reject: null, no array, an empty array, or an
\* array whose first row is no record
MustBeRejected(data) ==
    \/ IsNullish(data)
    \/ data.t # "array"
    \/ Len(data.items) = 0
    \/ data.items[1].t # "object"

\* C19: validateData on null, on data that is no array, on an empty array or
\* on an array whose first row is no record reports isValid false, at least
\* one error, and statistics that are all 0.
C19_RejectedWithEmptyStats ==
    Validated /\ MustBeRejected(tableInput.data) =>
        /\ encoded.validation.isValid = FALSE
        /\ Len(encoded.validation.errors) > 0
        /\ encoded.validation.stats = EmptyStats

\* the rows of the table, from the second on, that are records with another
\* number of keys than the first row
RaggedRows(data) ==
    {i \in 1..Len(data.items) :
        /\ data.items[i].t = "object"
        /\ Len(data.items[i].keys) # Len(data.items[1].keys)}

\* the column-count warnings of a report that name row i
ColumnWarnings(report, i) ==
    {w \in 1..Len(report.warnings) :
        StartsWith(report.warnings[w], "Row " \o NatToStr(i) \o " has ")}

\* C20: for a non-empty array whose first row is a record, validateData
\* reports isValid true and no error whatever the later rows are; each row
\* that is a record with another number of keys than the first row gets
\* exactly one column-count warning, which names both counts, and no other
\* row gets one.
C20_RaggedRowsAreWarnings ==
    Validated /\ ~MustBeRejected(tableInput.data) =>
        /\ encoded.validation.isValid = TRUE
        /\ encoded.validation.errors = <<>>
        /\ \A i \in 1..Len(tableInput.data.items) :
              /\ Cardinality(ColumnWarnings(encoded.validation, i))
                    = IF i \in RaggedRows(tableInput.data) THEN 1 ELSE 0
              /\ i \in RaggedRows(tableInput.data) =>
                    \E w \in 1..Len(encoded.validation.warnings) :
                        encoded.validation.warnings[w] =
                            "Row " \o NatToStr(i) \o " has "
                            \o NatToStr(Len(tableInput.data.items[i].keys))
                            \o " columns, expected "
                            \o NatToStr(Len(tableInput.data.items[1].keys))

\* a validated table with two ragged rows and a row that is no record
C20_Witness ==
    /\ Validated /\ ~MustBeRejected(tableInput.data)
    /\ Cardinality(RaggedRows(tableInput.data)) >= 2
    /\ \E i \in 1..Len(tableInput.data.items) : tableInput.data.items[i] = Null
    /\ encoded.validation.isValid
    /\ Len(encoded.validation.warnings) >= 3

\* the cells validateData looks at: those of the rows that are records,
\* under the columns of the first row
QualityCells(data) ==
    {p \in (1..Len(data.items)) \X (1..Len(data.items[1].keys)) :
        data.items[p[1]].t = "object"}

CellAt(data, p) == Get(data.items[p[1]], data.items[1].keys[p[2]])

\* the cells that are null or absent
MissingCells(data) ==
    {p \in QualityCells(data) : CellAt(data, p) \in {Null, Undefined}}

\* the cells whose string is empty or holds white space only
BlankCells(data) ==
    {p \in QualityCells(data) \ MissingCells(data) :
        \A j \in 1..Len(String(CellAt(data, p))) :
            CharAt(String(CellAt(data, p)), j) \in {" ", "\t", "\n", "\r"}}

\* the data-quality warnings of a report about null or about empty values
QualityWarnings(report, what) ==
    {w \in 1..Len(report.warnings) :
        EndsWith(report.warnings[w], "% of values are " \o what)}

\* C21: for a non-empty array whose first row is a record, validateData
\* counts, over the first row's columns of every row that is a record, the
\* cells that are null or absent in nullValues and the cells whose string is
\* empty or all white space in emptyValues; no cell is in both counts and
\* their sum is at most totalRows x totalColumns; the report has one
\* data-quality warning about null values exactly when the null count is
\* strictly more than 10% of totalRows x totalColumns, and likewise one
\* about empty values for the empty count.
C21_CountsAndTenPercent ==
    Validated /\ ~MustBeRejected(tableInput.data) =>
        LET stats == encoded.validation.stats
            totalValues == stats.totalRows * stats.totalColumns
        IN  /\ stats.totalRows = Len(tableInput.data.items)
            /\ stats.totalColumns = Len(tableInput.data.items[1].keys)
            /\ stats.nullValues = Cardinality(MissingCells(tableInput.data))
            /\ stats.emptyValues = Cardinality(BlankCells(tableInput.data))
            /\ stats.nullValues + stats.emptyValues <= totalValues
            /\ Cardinality(QualityWarnings(encoded.validation, "null"))
                  = IF 10 * stats.nullValues > totalValues THEN 1 ELSE 0
            /\ Cardinality(QualityWarnings(encoded.validation, "empty"))
                  = IF 10 * stats.emptyValues > totalValues THEN 1 ELSE 0

\* ten values of which one is null and two are blank: exactly 10% of null
\* values give no warning, 20% of empty values give one
C21_Witness ==
    /\ Validated
    /\ tableInput = QualityTable(1, 2, 10)
    /\ encoded.validation.stats.nullValues = 1
    /\ encoded.validation.stats.emptyValues = 2
    /\ encoded.validation.warnings = <<"20.0% of values are empty">>

\* generatePreview has been called on the table
Previewed == tableInput # Null /\ encoded.preview # Null

\* the table is an array of records, at least one
HasRows(data) ==
    /\ ~IsNullish(data) /\ data.t = "array" /\ Len(data.items) > 0
    /\ \A i \in 1..Len(data.items) : data.items[i].t = "object"

\* the row limit of the call (10 when it is left out)
RowLimit(input) == IF input.maxRows = Undefined THEN 10 ELSE input.maxRows.v

\* C22: for rows that are records and a row limit that is not negative,
\* generatePreview returns headers equal to the first row's keys, rows equal
\* to the first min(maxRows, length) rows in their order, totalRows equal to
\* the length and isPreview true exactly when totalRows > maxRows (11 rows
\* with maxRows 10 give 10 rows, totalRows 11 and isPreview true); null,
\* undefined or an empty array gives no headers, no rows, totalRows 0 and
\* isPreview false; the call leaves its input as it was.
C22_Preview ==
    /\ [](Previewed /\ HasRows(tableInput.data) =>
            LET preview == encoded.preview.value
                rows == tableInput.data.items
            IN  /\ encoded.preview.t = "return"
                /\ preview.headers = rows[1].keys
                /\ Len(preview.rows) =
                      (IF RowLimit(tableInput) < Len(rows)
                       THEN RowLimit(tableInput) ELSE Len(rows))
                /\ \A i \in 1..Len(preview.rows) : preview.rows[i] = rows[i]
                /\ preview.totalRows = Len(rows)
                /\ preview.isPreview = (preview.totalRows > RowLimit(tableInput))
                /\ (Len(rows) = 11 /\ RowLimit(tableInput) = 10 =>
                        Len(preview.rows) = 10 /\ preview.totalRows = 11
                        /\ preview.isPreview))
    /\ [](Previewed /\ (IsNullish(tableInput.data) \/ tableInput.data = Array(<<>>)) =>
            encoded.preview =
                Returns([headers |-> <<>>, rows |-> <<>>, totalRows |-> 0,
                         isPreview |-> FALSE]))
    /\ [][GeneratePreviewCall => tableInput' = tableInput]_vars

\* eleven rows previewed with the default limit of 10
C22_Witness ==
    /\ Previewed /\ HasRows(tableInput.data)
    /\ Len(tableInput.data.items) = 11
    /\ tableInput.maxRows = Undefined
    /\ Len(encoded.preview.value.rows) = 10
    /\ encoded.preview.value.isPreview

-----------------------------------------------------------------------------
(* Properties of the export *)

\* calls whose document has been exported
Exported == {c \in Calls : exported[c] # Null}

\* the columns of the CSV of flattened rows, in their order
FlatColumns ==
    <<"usage_point_id", "meter_reading_id", "interval_block_id", "reading_type_id",
      "service_category", "commodity", "uom", "power_multiplier", "start_time",
      "duration", "end_time", "value", "cost", "quality_flags", "interval_length",
      "calculated_value", "calculated_cost">>

ExportStepFails(c) ==
    \/ Len(flatData[c]) = 0
    \/ exportCall[c].options.downloadFile /\ exportCall[c].downloadError # Null

\* C18: an export always gives a result.  When the document flattens to no
\* row, or the download fails, the result has success false and an error
\* message, its csvContent, filename, stats and validation are all null, and
\* it has nothing else; for no row the message is that of the validation.
\* Otherwise the result has success true, the report validateData gives for
\* the flattened rows (which is valid), the CSV text of the flattened rows
\* (after the metadata comments when they are asked for) and the size of that
\* text.
C18_ExportResult ==
    \A c \in Exported :
        IF ExportStepFails(c)
        THEN /\ exported[c].success = FALSE
             /\ DOMAIN exported[c]
                    = {"success", "error", "csvContent", "filename", "stats", "validation"}
             /\ Len(exported[c].error) > 0
             /\ Len(flatData[c]) = 0 =>
                    exported[c].error = "Data validation failed: Data array is empty"
             /\ exported[c].csvContent = Null /\ exported[c].filename = Null
             /\ exported[c].stats = Null /\ exported[c].validation = Null
        ELSE /\ exported[c].success = TRUE
             /\ exported[c].validation = ValidateData(FlatDataArray(flatData[c]))
             /\ exported[c].validation.isValid
             /\ EndsWith(exported[c].csvContent.s,
                         ConvertToCSV(FlatDataArray(flatData[c]), Null).value.s)
             /\ ~exportCall[c].options.includeMetadata =>
                    /\ exported[c].csvContent.s
                          = ConvertToCSV(FlatDataArray(flatData[c]), Null).value.s
                    /\ Len(ReadCSV(exported[c].csvContent.s)) = 1 + Len(flatData[c])
             /\ exported[c].stats.fileSize = Len(exported[c].csvContent.s)
             /\ exported[c].stats.totalRows = Len(flatData[c])

\* an export that failed in its validation: a feed with entries but no row
C18_Witness ==
    \E c \in Exported :
        /\ Len(xml[c].entry) >= 2
        /\ Len(flatData[c]) = 0
        /\ exportCall[c].downloadError = Null
        /\ exported[c].success = FALSE
        /\ exported[c].validation = Null

-----------------------------------------------------------------------------
(* Properties of the summary statistics *)

\* calls whose rows have been summarized
Summarized == {c \in Calls : summary[c] # Null}

\* the values the rows have in a column
ColumnValues(rows, column) == {rows[i][column] : i \in 1..Len(rows)}

\* the sum of the integers among the first n values of a column
RECURSIVE IntegerSum(_, _, _)
IntegerSum(rows, column, n) ==
    IF n = 0 THEN 0
    ELSE IntegerSum(rows, column, n - 1)
         + (IF rows[n][column].t = "int" THEN rows[n][column].v ELSE 0)

\* the sum of a column: a value that is NaN is a number too and makes the sum NaN
ColumnSum(rows, column) ==
    IF NaN \in ColumnValues(rows, column) THEN NaN
    ELSE IntV(IntegerSum(rows, column, Len(rows)))

\* the start times the rows carry, as texts
StartTimes(rows) == {v.s : v \in ColumnValues(rows, "start_time") \ {Null}}

\* a timestamp text is not later than another: the texts have the same
\* layout, so that the first character that differs decides
NotLater(a, b) ==
    \/ a = b
    \/ \E i \in 1..Len(a) :
          /\ SubSeq(a, 1, i - 1) = SubSeq(b, 1, i - 1)
          /\ CharAt(a, i) \in Digits /\ CharAt(b, i) \in Digits
          /\ DigitVal(CharAt(a, i)) < DigitVal(CharAt(b, i))

\* C23: generateSummaryStats returns totalIntervals equal to the number of
\* rows, usagePoints and meterReadings equal to the number of distinct
\* usage_point_id and meter_reading_id values, totalEnergyValue and totalCost
\* equal to the sums of the rows' numeric value and cost (a NaN among them
\* makes the sum NaN), commodities equal to the distinct commodity labels,
\* each listed once, and dateRange null exactly when no row carries a start
\* time, otherwise the earliest and the latest of the start times the rows
\* carry.
C23_SummaryStats ==
    \A c \in Summarized :
        LET rows == flatData[c]
            stats == summary[c]
        IN  /\ stats.totalIntervals = Len(rows)
            /\ stats.usagePoints = Cardinality(ColumnValues(rows, "usage_point_id"))
            /\ stats.meterReadings = Cardinality(ColumnValues(rows, "meter_reading_id"))
            /\ stats.totalEnergyValue = ColumnSum(rows, "value")
            /\ stats.totalCost = ColumnSum(rows, "cost")
            /\ {stats.commodities[i] : i \in 1..Len(stats.commodities)}
                  = ColumnValues(rows, "commodity") \ {Null}
            /\ Len(stats.commodities)
                  = Cardinality(ColumnValues(rows, "commodity") \ {Null})
            /\ (stats.dateRange = Null) = (StartTimes(rows) = {})
            /\ stats.dateRange # Null =>
                  /\ stats.dateRange.min.s \in StartTimes(rows)
                  /\ stats.dateRange.max.s \in StartTimes(rows)
                  /\ \A t \in StartTimes(rows) :
                        /\ NotLater(stats.dateRange.min.s, t)
                        /\ NotLater(t, stats.dateRange.max.s)

\* rows of two usage points and two meter readings whose first row carries
\* the latest start time, not the earliest
C23_Witness ==
    \E c \in Summarized :
        /\ Len(flatData[c]) >= 3
        /\ summary[c].usagePoints = 2 /\ summary[c].meterReadings = 2
        /\ summary[c].dateRange # Null
        /\ summary[c].dateRange.max = flatData[c][1].start_time
        /\ summary[c].dateRange.min # flatData[c][1].start_time
        /\ summary[c].totalEnergyValue.t = "int" /\ summary[c].totalEnergyValue.v > 0

-----------------------------------------------------------------------------
(* Decoding of the text 0 *)

\* the child of the element has the text 0
IsZeroText(element, tag) ==
    /\ tag \in DOMAIN element
    /\ element[tag] # Null
    /\ Trim(element[tag].s) = "0"

\* where the text is 0 the decoded field is the integer 0
ZeroDecoded(element, tag, decoded) == IsZeroText(element, tag) => decoded = IntV(0)

\* start and duration of a period element and of the period decoded from it
ZeroPeriodDecoded(element, period) ==
    element # Null =>
        /\ ZeroDecoded(element, "start", period.start)
        /\ ZeroDecoded(element, "duration", period.duration)

\* no other entry of the feed has the id of entry n
OnlyEntryOfId(doc, n) ==
    \A j \in 1..Len(doc.entry) :
        j # n => GetTextContent(doc.entry[j], "id") # GetTextContent(doc.entry[n], "id")

\* the summary element of an entry classified as UsageSummary
SummaryElementOf(entry) ==
    IF "UsageSummary" \in DOMAIN entry.content THEN entry.content.UsageSummary
    ELSE entry.content.ElectricPowerUsageSummary

\* C25: in a document parseXML returned, every integer field whose text is
\* "0" is decoded to the integer 0 and not to null: start and duration of
\* each interval reading and of the block interval, the ReadingType fields
\* accumulationBehaviour, currency, dataQualifier, flowDirection,
\* intervalLength, kind, phase and timeAttribute, the offsets of
\* LocalTimeParameters and the amounts of UsageSummary, as value, cost and
\* powerOfTenMultiplier are.
C25_ZeroDecodesToZero ==
    \A c \in Returned :
        \A n \in 1..Len(xml[c].entry) :
            LET entry == xml[c].entry[n]
                id == GetTextContent(entry, "id")
                d == result[c].document
            IN  OnlyEntryOfId(xml[c], n) =>
                /\ ClassifiedAs(entry, "IntervalBlock") =>
                      LET element == entry.content.IntervalBlock
                          block == d.intervalBlocks.val[id]
                      IN  /\ ZeroPeriodDecoded(element.interval, block.interval)
                          /\ \A k \in 1..Len(element.IntervalReading) :
                                LET reading == element.IntervalReading[k]
                                    decoded == block.intervalReadings[k]
                                IN  /\ ZeroPeriodDecoded(reading.timePeriod, decoded.timePeriod)
                                    /\ ZeroDecoded(reading, "value", decoded.value)
                                    /\ ZeroDecoded(reading, "cost", decoded.cost)
                /\ ClassifiedAs(entry, "ReadingType") =>
                      \A f \in {"accumulationBehaviour", "currency", "dataQualifier",
                                "flowDirection", "intervalLength", "kind", "phase",
                                "powerOfTenMultiplier", "timeAttribute"} :
                          ZeroDecoded(entry.content.ReadingType, f, d.readingTypes.val[id][f])
                /\ ClassifiedAs(entry, "LocalTimeParameters") =>
                      \A f \in {"dstOffset", "tzOffset"} :
                          ZeroDecoded(entry.content.LocalTimeParameters, f,
                                      d.localTimeParameters.val[id][f])
                /\ ClassifiedAs(entry, "UsageSummary") =>
                      LET element == SummaryElementOf(entry)
                          decoded == d.usageSummaries.val[id]
                      IN  /\ \A f \in {"billLastPeriod", "billToDate", "currency"} :
                                ZeroDecoded(element, f, decoded[f])
                          /\ ZeroPeriodDecoded(element.billingPeriod, decoded.billingPeriod)
                          /\ element.overallConsumptionLastPeriod # Null =>
                                \A f \in {"powerOfTenMultiplier", "uom", "value"} :
                                    ZeroDecoded(element.overallConsumptionLastPeriod, f,
                                                decoded.overallConsumptionLastPeriod[f])

-----------------------------------------------------------------------------
(* Links to a resource type the feed has no entity of *)

\* how the mapping treats the sources that carry a 'related' link containing
\* the substring when the target collection is empty: TRUE for a key that is
\* present (with an empty list), FALSE for a key that is absent
TreatmentsOfEmptyTarget(sources, targets, mapping, substring) ==
    IF Len(targets.keys) > 0 THEN {}
    ELSE {MapHas(mapping, s) /\ mapping.val[s] = <<>> :
            s \in {x \in DOMAIN sources.val : HasRelatedLinkTo(sources.val[x], substring)}}

\* C26: when a source entity has a matching 'related' link and the feed holds
\* no entity of the target type, the three relationship mappings treat the
\* source's key the same way: present with an empty list in all of them, or
\* absent in all of them.
C26_SameTreatmentOfEmptyTarget ==
    \A c \in Returned :
        LET d == result[c].document
            rel == d.relationships
        IN  Cardinality(
                TreatmentsOfEmptyTarget(d.usagePoints, d.meterReadings,
                                        rel.usagePointToMeterReadings, "MeterReading")
                \cup TreatmentsOfEmptyTarget(d.meterReadings, d.intervalBlocks,
                                             rel.meterReadingToIntervalBlocks,
                                             "IntervalBlock")
                \cup TreatmentsOfEmptyTarget(d.meterReadings, d.readingTypes,
                                             rel.meterReadingToReadingTypes,
                                             "ReadingType")) <= 1

-----------------------------------------------------------------------------
(* Calls of parseXML that interleave *)

\* the ids of the entries of a feed
EntryIds(doc) == {GetTextContent(doc.entry[n], "id") : n \in 1..Len(doc.entry)}

\* the ids a document holds: the keys of its collections, the keys of its
\* relationship mappings and the ids listed in them
IdsHeld(pd) ==
    UNION {DOMAIN pd[collection].val :
            collection \in {"usagePoints", "meterReadings", "intervalBlocks",
                            "readingTypes", "localTimeParameters", "usageSummaries"}}
    \cup UNION {DOMAIN pd.relationships[mapping].val \cup
                UNION {Range(pd.relationships[mapping].val[k]) :
                        k \in DOMAIN pd.relationships[mapping].val} :
                mapping \in {"usagePointToMeterReadings", "meterReadingToIntervalBlocks",
                             "meterReadingToReadingTypes"}}

\* the 'related' links a document holds
LinksHeld(pd) ==
    UNION {UNION {IF "related" \in DOMAIN pd[collection].val[k].links
                  THEN Range(pd[collection].val[k].links["related"]) ELSE {} :
                  k \in DOMAIN pd[collection].val} :
           collection \in {"usagePoints", "meterReadings", "intervalBlocks"}}

\* the hrefs of the 'related' links of a feed
LinksOf(doc) ==
    UNION {{doc.entry[n].link[i].href.s :
                i \in {j \in 1..Len(doc.entry[n].link) :
                          doc.entry[n].link[j].rel = Str("related")}} :
           n \in 1..Len(doc.entry)}

\* C24: when the steps of several parseXML calls on inputs of their own
\* interleave, each call returns (or throws) what it gives when it runs
\* alone, the rows flattened from its document are those of its own
\* document, and at every step the document a call is building holds no
\* entity id, no relationship and no link but those of its own input.
C24_CallsShareNoState ==
    \A c \in Calls :
        /\ result[c] # Null => result[c] = ParseXML(xml[c])
        /\ parsedData[c] # Null =>
              /\ IdsHeld(parsedData[c]) \subseteq EntryIds(xml[c])
              /\ LinksHeld(parsedData[c]) \subseteq LinksOf(xml[c])
              /\ parsedData[c].metadata.totalEntries = Len(xml[c].entry)
        /\ pc[c] = "flat" => flatData[c] = ToFlatData(ParseXML(xml[c]).document)

\* two calls on feeds without a common id have both returned a document
C24_Witness ==
    /\ xml[1] = Document(<<U1, M1, B1, R1>>)
    /\ xml[2] = Document(<<R2, U2, M2, B2>>)
    /\ result[1] # Null /\ result[1].t = "ok"
    /\ result[2] # Null /\ result[2].t = "ok"
    /\ Len(result[1].document.usagePoints.keys) = 1
    /\ Len(result[2].document.usagePoints.keys) = 1

-----------------------------------------------------------------------------
(* Properties of the application *)

\* the files whose text parses
ParsedFiles == {f \in AppFiles : f.readable /\ f.xml # Null /\ ParseXML(f.xml).t = "ok"}

\* the two fields hold the parsed document and the flattened rows of file f
HoldsFile(f) ==
    /\ app.currentData = ParseXML(f.xml).document
    /\ ~ToFlatDataThrows(app.currentData)
    /\ app.currentFlatData = FlatDataArray(ToFlatData(app.currentData))

\* C27: in every reachable state of the application currentData and
\* currentFlatData are both null, or they are the parsed document and the
\* flattened rows of one and the same file, also after a processFile call
\* that has failed at any of its steps
C27_FieldsOfOneFile ==
    \/ app.currentData = Null /\ app.currentFlatData = Null
    \/ \E f \in ParsedFiles : HoldsFile(f)

\* the files whose text parses and whose document flattens
FlatFiles == {f \in ParsedFiles : ~ToFlatDataThrows(ParseXML(f.xml).document)}

\* what showResults displays in the step when the document, the rows and the
\* statistics are all those of file f
ShownFrom(f) ==
    LET document == ParseXML(f.xml).document
        rows == ToFlatData(document)
    IN  app'.view = ShowResults([app EXCEPT !.currentData = document,
                                            !.currentFlatData = FlatDataArray(rows)],
                                GenerateSummaryStats(rows)).view

\* C28: every showResults that runs while the application holds a document,
\* also when processFile calls have overlapped, displays statistics, feed
\* metadata and preview rows that all come from one and the same file
C28_ResultsOfOneFile ==
    [][(ShowResultsTimer /\ app.currentData # Null) => \E f \in FlatFiles : ShownFrom(f)]_vars

\* C29: after handleReset the results section stays hidden until a
\* processFile call started after the reset has completed: the results
\* section becomes visible only by the timer of a call that no reset has
\* followed
C29_NoResultsOfCallsBeforeReset ==
    [][(~app.display.results /\ app'.display.results)
          => (Len(app.timers) > 0 /\ ~Head(app.timers).stale)]_vars

\* the sections that are displayed
Displayed(display) == {section \in DOMAIN display : display[section]}

\* C30: once processFile, the error path of handleExport, showResults or
\* handleReset has run, at most one of the processing, results and error
\* sections is displayed, under any interleaving of file selections, timer
\* firings, exports and resets: every step of a handler that changes
\* anything leaves at most one section displayed
C30_AtMostOneSection == [][Cardinality(Displayed(app'.display)) <= 1]_vars

\* the results of a first file are displayed while a second file is being
\* read, after an export without data has shown its error
C30_Witness ==
    /\ Displayed(app.display) = {"results"}
    /\ app.errorMessage = Str("No data available to export")
    /\ Len(app.reads) > 0
    /\ app.view.feedId # Null

=============================================================================
